---- MODULE Spec2Model ----
(***************************************************************************)
(* A model of the recommendation generation and scoring engine of the      *)
(* ml-service: the rules engine (utils/rules_engine.py), the               *)
(* sustainability calculator (utils/calculations.py), the prompt selection *)
(* (services/prompt_engineering.py) and the rules-based endpoint (main.py).*)
(*                                                                         *)
(* Every operation of the engine is a synchronous call.  The state is the  *)
(* last call made: its name (call), its arguments (args) and what it       *)
(* returned (ret).                                                         *)
(*                                                                         *)
(* Numbers.  Python floats are modelled by exact fixed-point integers.     *)
(* The unit is written in the name or the comment of each quantity:        *)
(*   x100   hundredths              x4   ten-thousandths (1e-4)            *)
(*   x10    tenths                  x3   thousandths                       *)
(* round(x, n) is IEEE round-half-to-even on the exact value               *)
(* (RoundHalfEven).  The input sets below were compared, call by call,     *)
(* with the Python functions, so that no input sits on a binary-float      *)
(* half-way case where the exact value and the float would round apart.    *)
(*                                                                         *)
(* Strings are TLA+ strings; Python's `a in b` on strings is Contains and  *)
(* str.lower() is Lower.                                                   *)
(*                                                                         *)
(* calculations.py declares IncentiveData (lines 37-47) with a field       *)
(* without default after fields with defaults, which dataclass rejects     *)
(* with a TypeError when the module is imported.  The model is of the      *)
(* bodies of its functions, as they run once that declaration is accepted. *)
(***************************************************************************)
EXTENDS Integers, Sequences, FiniteSets, TLC

VARIABLES call, args, ret

\* PromptEngineeringService.metrics and the threads that record into it:
\*   metrics      self.metrics: prompt_id -> the list object stored under it
\*   lists        the list objects, by identity: lists[r] is the content of r
\*   recorders    each thread's position in record_metrics and its locals
\*   completed    prompt_id -> the number of record_metrics calls returned
\*   performance  what the last get_template_performance returned
VARIABLES metrics, lists, recorders, completed, performance

\* The engine object and the requests served from it concurrently:
\*   rules             self.rules
\*   regional_factors  self.regional_factors
\*   requests          each request's position in generate_recommendations
\*                     and its locals
VARIABLES rules, regional_factors, requests

callVars == <<call, args, ret>>
metricsVars == <<metrics, lists, recorders, completed, performance>>
engineVars == <<rules, regional_factors, requests>>
vars == <<callVars, metricsVars, engineVars>>

---------------------------------------------------------------------------
(* Python values *)

\* Optional[T]: None is the empty set, a value v is {v}.
None == {}
Some(v) == {v}
Val(o) == CHOOSE v \in o : TRUE

\* Truth value of an Optional number: None and 0 are both false.
TruthyNum(o) == o # None /\ Val(o) # 0

\* Truth value of an Optional list: None and [] are both false.
TruthyList(o) == o # None /\ Len(Val(o)) > 0

Min2(a, b) == IF a <= b THEN a ELSE b
Max2(a, b) == IF a >= b THEN a ELSE b

\* round(n/d) to the nearest integer, ties to even; d > 0, n any integer.
RoundHalfEven(n, d) ==
    LET q == n \div d
        r == n % d
    IN  IF 2 * r < d THEN q
        ELSE IF 2 * r > d THEN q + 1
        ELSE IF q % 2 = 0 THEN q ELSE q + 1

\* str.lower() on the ASCII letters.
LowerTable ==
    "A" :> "a" @@ "B" :> "b" @@ "C" :> "c" @@ "D" :> "d" @@ "E" :> "e" @@
    "F" :> "f" @@ "G" :> "g" @@ "H" :> "h" @@ "I" :> "i" @@ "J" :> "j" @@
    "K" :> "k" @@ "L" :> "l" @@ "M" :> "m" @@ "N" :> "n" @@ "O" :> "o" @@
    "P" :> "p" @@ "Q" :> "q" @@ "R" :> "r" @@ "S" :> "s" @@ "T" :> "t" @@
    "U" :> "u" @@ "V" :> "v" @@ "W" :> "w" @@ "X" :> "x" @@ "Y" :> "y" @@
    "Z" :> "z"

LowerChar(c) == IF c \in DOMAIN LowerTable THEN LowerTable[c] ELSE c

RECURSIVE Lower(_)
Lower(s) ==
    IF Len(s) = 0 THEN ""
    ELSE LowerChar(SubSeq(s, 1, 1)) \o Lower(SubSeq(s, 2, Len(s)))

\* Python: needle in hay
Contains(hay, needle) ==
    \/ Len(needle) = 0
    \/ \E i \in 1..(Len(hay) - Len(needle) + 1) :
          SubSeq(hay, i, i + Len(needle) - 1) = needle

\* Python: any(k in text for k in keywords)
AnyKeywordIn(keywords, text) ==
    \E i \in 1..Len(keywords) : Contains(text, keywords[i])

RECURSIVE Reverse(_)
Reverse(l) ==
    IF Len(l) = 0 THEN <<>> ELSE Append(Reverse(Tail(l)), Head(l))

---------------------------------------------------------------------------
(* rules_engine.py: BusinessDataAnalyzer *)

\* categorize_industry without the .lower() of line 79.
categorize_industry_case_sensitive(industry_str) ==
    LET industry_lower == industry_str
    IN  IF AnyKeywordIn(<<"tech", "software", "it", "computer">>, industry_lower)
          THEN "TECHNOLOGY"
        ELSE IF AnyKeywordIn(<<"manufacturing", "factory", "production">>, industry_lower)
          THEN "MANUFACTURING"
        ELSE IF AnyKeywordIn(<<"retail", "store", "shopping">>, industry_lower)
          THEN "RETAIL"
        ELSE IF AnyKeywordIn(<<"health", "medical", "hospital">>, industry_lower)
          THEN "HEALTHCARE"
        ELSE IF AnyKeywordIn(<<"hotel", "restaurant", "hospitality">>, industry_lower)
          THEN "HOSPITALITY"
        ELSE IF AnyKeywordIn(<<"education", "school", "university">>, industry_lower)
          THEN "EDUCATION"
        ELSE IF AnyKeywordIn(<<"financial", "bank", "finance">>, industry_lower)
          THEN "FINANCIAL"
        ELSE IF AnyKeywordIn(<<"logistics", "transport", "shipping">>, industry_lower)
          THEN "LOGISTICS"
        ELSE IF AnyKeywordIn(<<"construction", "building">>, industry_lower)
          THEN "CONSTRUCTION"
        ELSE IF AnyKeywordIn(<<"agriculture", "farming">>, industry_lower)
          THEN "AGRICULTURE"
        ELSE "OTHER"

\* The enumerations, each member's name with its value (its canonical name).
IndustryType ==
    "TECHNOLOGY" :> "Technology" @@ "MANUFACTURING" :> "Manufacturing" @@
    "RETAIL" :> "Retail" @@ "HEALTHCARE" :> "Healthcare" @@
    "HOSPITALITY" :> "Hospitality" @@ "EDUCATION" :> "Education" @@
    "FINANCIAL" :> "Financial Services" @@
    "LOGISTICS" :> "Logistics & Transportation" @@
    "CONSTRUCTION" :> "Construction" @@ "AGRICULTURE" :> "Agriculture" @@
    "OTHER" :> "Other"

CompanySize ==
    "SMALL" :> "1-50 employees" @@ "MEDIUM" :> "51-200 employees" @@
    "LARGE" :> "201-1000 employees" @@ "ENTERPRISE" :> "1000+ employees"

GoalCategory ==
    "ENERGY_EFFICIENCY" :> "Energy Efficiency" @@
    "RENEWABLE_ENERGY" :> "Renewable Energy" @@
    "CARBON_REDUCTION" :> "Carbon Footprint Reduction" @@
    "WASTE_REDUCTION" :> "Waste Reduction" @@
    "WATER_CONSERVATION" :> "Water Conservation" @@
    "TRANSPORTATION" :> "Sustainable Transportation" @@
    "GREEN_BUILDING" :> "Green Building" @@
    "SUPPLY_CHAIN" :> "Sustainable Supply Chain"

categorize_industry(industry_str) ==
    LET industry_lower == Lower(industry_str)
    IN  IF AnyKeywordIn(<<"tech", "software", "it", "computer">>, industry_lower)
          THEN "TECHNOLOGY"
        ELSE IF AnyKeywordIn(<<"manufacturing", "factory", "production">>, industry_lower)
          THEN "MANUFACTURING"
        ELSE IF AnyKeywordIn(<<"retail", "store", "shopping">>, industry_lower)
          THEN "RETAIL"
        ELSE IF AnyKeywordIn(<<"health", "medical", "hospital">>, industry_lower)
          THEN "HEALTHCARE"
        ELSE IF AnyKeywordIn(<<"hotel", "restaurant", "hospitality">>, industry_lower)
          THEN "HOSPITALITY"
        ELSE IF AnyKeywordIn(<<"education", "school", "university">>, industry_lower)
          THEN "EDUCATION"
        ELSE IF AnyKeywordIn(<<"financial", "bank", "finance">>, industry_lower)
          THEN "FINANCIAL"
        ELSE IF AnyKeywordIn(<<"logistics", "transport", "shipping">>, industry_lower)
          THEN "LOGISTICS"
        ELSE IF AnyKeywordIn(<<"construction", "building">>, industry_lower)
          THEN "CONSTRUCTION"
        ELSE IF AnyKeywordIn(<<"agriculture", "farming">>, industry_lower)
          THEN "AGRICULTURE"
        ELSE "OTHER"

categorize_company_size(size_str) ==
    LET size_lower == Lower(size_str)
    IN  IF AnyKeywordIn(<<"small", "1-50", "startup">>, size_lower)
          THEN "SMALL"
        ELSE IF AnyKeywordIn(<<"medium", "51-200", "mid">>, size_lower)
          THEN "MEDIUM"
        ELSE IF AnyKeywordIn(<<"large", "201-1000">>, size_lower)
          THEN "LARGE"
        ELSE IF AnyKeywordIn(<<"enterprise", "1000+", "corporation">>, size_lower)
          THEN "ENTERPRISE"
        ELSE "MEDIUM"

\* The category one goal string appends, as a set: empty when the string
\* matches no keyword group (nothing is appended).
categorize_goal(goal) ==
    LET goal_lower == Lower(goal)
    IN  IF AnyKeywordIn(<<"energy", "efficiency">>, goal_lower)
          THEN {"ENERGY_EFFICIENCY"}
        ELSE IF AnyKeywordIn(<<"renewable", "solar", "wind">>, goal_lower)
          THEN {"RENEWABLE_ENERGY"}
        ELSE IF AnyKeywordIn(<<"carbon", "emissions", "co2">>, goal_lower)
          THEN {"CARBON_REDUCTION"}
        ELSE IF AnyKeywordIn(<<"waste", "recycling">>, goal_lower)
          THEN {"WASTE_REDUCTION"}
        ELSE IF AnyKeywordIn(<<"water", "conservation">>, goal_lower)
          THEN {"WATER_CONSERVATION"}
        ELSE IF AnyKeywordIn(<<"transport", "fleet", "commute">>, goal_lower)
          THEN {"TRANSPORTATION"}
        ELSE IF AnyKeywordIn(<<"building", "leed", "green">>, goal_lower)
          THEN {"GREEN_BUILDING"}
        ELSE IF AnyKeywordIn(<<"supply", "vendor", "procurement">>, goal_lower)
          THEN {"SUPPLY_CHAIN"}
        ELSE {}

\* list(set(categorized)): the order of the returned list is unspecified and
\* its only reader tests membership, so the result is kept as the set.
categorize_goals(goals) ==
    UNION {categorize_goal(goals[i]) : i \in 1..Len(goals)}

---------------------------------------------------------------------------
(* rules_engine.py: the rule catalog *)

\* The dataclass defaults of RecommendationRule.  Units: cost_savings_factor,
\* co2_reduction_factor and base_priority are x100; implementation_cost_factor
\* is x10; the thresholds are kWh and therms per month.  The description text
\* of a rule is copied verbatim into its result and is not modelled.
RecommendationRule ==
    [rule_id |-> "", title |-> "", category |-> "", difficulty |-> "",
     min_kwh |-> None, max_kwh |-> None,
     min_therms |-> None, max_therms |-> None,
     applicable_industries |-> None, applicable_sizes |-> None,
     required_goals |-> None,
     cost_savings_factor |-> 0, co2_reduction_factor |-> 0,
     base_roi_months |-> 12, implementation_cost_factor |-> 10,
     base_priority |-> 50, priority_multipliers |-> None]

_create_energy_efficiency_rules ==
    << [RecommendationRule EXCEPT
          !.rule_id = "led_retrofit_basic", !.title = "LED Lighting Retrofit",
          !.category = "Energy Efficiency", !.difficulty = "Easy",
          !.min_kwh = Some(800),
          !.cost_savings_factor = 25, !.co2_reduction_factor = 25,
          !.base_roi_months = 18, !.base_priority = 80],
       [RecommendationRule EXCEPT
          !.rule_id = "hvac_optimization", !.title = "HVAC System Optimization",
          !.category = "Energy Efficiency", !.difficulty = "Medium",
          !.min_kwh = Some(1500),
          !.cost_savings_factor = 15, !.co2_reduction_factor = 15,
          !.base_roi_months = 24, !.base_priority = 70],
       [RecommendationRule EXCEPT
          !.rule_id = "smart_power_management",
          !.title = "Smart Power Management Systems",
          !.category = "Energy Efficiency", !.difficulty = "Easy",
          !.min_kwh = Some(500),
          !.applicable_sizes = Some(<<"MEDIUM", "LARGE", "ENTERPRISE">>),
          !.cost_savings_factor = 8, !.co2_reduction_factor = 8,
          !.base_roi_months = 12, !.base_priority = 60],
       [RecommendationRule EXCEPT
          !.rule_id = "energy_audit_comprehensive",
          !.title = "Professional Energy Audit",
          !.category = "Assessment", !.difficulty = "Easy",
          !.cost_savings_factor = 10, !.co2_reduction_factor = 10,
          !.base_roi_months = 6, !.base_priority = 90],
       [RecommendationRule EXCEPT
          !.rule_id = "insulation_upgrade",
          !.title = "Building Insulation Upgrade",
          !.category = "Energy Efficiency", !.difficulty = "Hard",
          !.min_kwh = Some(2000), !.min_therms = Some(100),
          !.cost_savings_factor = 20, !.co2_reduction_factor = 18,
          !.base_roi_months = 36, !.implementation_cost_factor = 30,
          !.base_priority = 50] >>

_create_industry_specific_rules ==
    << [RecommendationRule EXCEPT
          !.rule_id = "server_efficiency_tech",
          !.title = "Data Center and Server Efficiency",
          !.category = "Energy Efficiency", !.difficulty = "Medium",
          !.applicable_industries = Some(<<"TECHNOLOGY">>),
          !.min_kwh = Some(2000),
          !.cost_savings_factor = 30, !.co2_reduction_factor = 30,
          !.base_roi_months = 18, !.base_priority = 80],
       [RecommendationRule EXCEPT
          !.rule_id = "motor_efficiency_mfg",
          !.title = "High-Efficiency Motor Upgrades",
          !.category = "Energy Efficiency", !.difficulty = "Medium",
          !.applicable_industries = Some(<<"MANUFACTURING">>),
          !.min_kwh = Some(5000),
          !.cost_savings_factor = 25, !.co2_reduction_factor = 25,
          !.base_roi_months = 30, !.base_priority = 70],
       [RecommendationRule EXCEPT
          !.rule_id = "refrigeration_efficiency_retail",
          !.title = "Refrigeration System Optimization",
          !.category = "Energy Efficiency", !.difficulty = "Hard",
          !.applicable_industries = Some(<<"RETAIL">>),
          !.min_kwh = Some(3000),
          !.cost_savings_factor = 20, !.co2_reduction_factor = 20,
          !.base_roi_months = 36, !.base_priority = 60],
       [RecommendationRule EXCEPT
          !.rule_id = "medical_equipment_efficiency",
          !.title = "Medical Equipment Energy Management",
          !.category = "Energy Efficiency", !.difficulty = "Medium",
          !.applicable_industries = Some(<<"HEALTHCARE">>),
          !.min_kwh = Some(4000),
          !.cost_savings_factor = 12, !.co2_reduction_factor = 12,
          !.base_roi_months = 24, !.base_priority = 70],
       [RecommendationRule EXCEPT
          !.rule_id = "guest_room_automation",
          !.title = "Guest Room Energy Automation",
          !.category = "Energy Efficiency", !.difficulty = "Medium",
          !.applicable_industries = Some(<<"HOSPITALITY">>),
          !.min_kwh = Some(2500),
          !.cost_savings_factor = 18, !.co2_reduction_factor = 18,
          !.base_roi_months = 20, !.base_priority = 80] >>

_create_size_specific_rules ==
    << [RecommendationRule EXCEPT
          !.rule_id = "small_business_basics",
          !.title = "Small Business Energy Basics",
          !.category = "Energy Efficiency", !.difficulty = "Easy",
          !.applicable_sizes = Some(<<"SMALL">>),
          !.cost_savings_factor = 15, !.co2_reduction_factor = 15,
          !.base_roi_months = 12, !.base_priority = 80],
       [RecommendationRule EXCEPT
          !.rule_id = "enterprise_energy_management",
          !.title = "Enterprise Energy Management System",
          !.category = "Energy Efficiency", !.difficulty = "Hard",
          !.applicable_sizes = Some(<<"ENTERPRISE">>),
          !.min_kwh = Some(10000),
          !.cost_savings_factor = 20, !.co2_reduction_factor = 20,
          !.base_roi_months = 24, !.implementation_cost_factor = 20,
          !.base_priority = 70] >>

_create_goal_specific_rules ==
    << [RecommendationRule EXCEPT
          !.rule_id = "solar_installation",
          !.title = "Solar Panel Installation",
          !.category = "Renewable Energy", !.difficulty = "Hard",
          !.required_goals = Some(<<"RENEWABLE_ENERGY">>),
          !.min_kwh = Some(2000),
          !.cost_savings_factor = 30, !.co2_reduction_factor = 40,
          !.base_roi_months = 60, !.implementation_cost_factor = 40,
          !.base_priority = 90],
       [RecommendationRule EXCEPT
          !.rule_id = "waste_reduction_program",
          !.title = "Comprehensive Waste Reduction Program",
          !.category = "Waste Reduction", !.difficulty = "Medium",
          !.required_goals = Some(<<"WASTE_REDUCTION">>),
          !.cost_savings_factor = 5, !.co2_reduction_factor = 8,
          !.base_roi_months = 18, !.base_priority = 60],
       [RecommendationRule EXCEPT
          !.rule_id = "water_conservation_systems",
          !.title = "Water Conservation Systems",
          !.category = "Water Conservation", !.difficulty = "Medium",
          !.required_goals = Some(<<"WATER_CONSERVATION">>),
          !.cost_savings_factor = 3, !.co2_reduction_factor = 2,
          !.base_roi_months = 30, !.base_priority = 50],
       [RecommendationRule EXCEPT
          !.rule_id = "green_transportation",
          !.title = "Green Transportation Initiative",
          !.category = "Transportation", !.difficulty = "Hard",
          !.required_goals = Some(<<"TRANSPORTATION">>),
          !.applicable_sizes = Some(<<"MEDIUM", "LARGE", "ENTERPRISE">>),
          !.cost_savings_factor = 10, !.co2_reduction_factor = 15,
          !.base_roi_months = 48, !.implementation_cost_factor = 25,
          !.base_priority = 60] >>

\* self.rules
_initialize_rules ==
    _create_energy_efficiency_rules \o _create_industry_specific_rules
        \o _create_size_specific_rules \o _create_goal_specific_rules

\* self.regional_factors["electricity_rate"], in insertion order; factor x100.
\* (The solar_potential and heating_factor tables are read by no method.)
electricity_rate_table ==
    << [region |-> "california", factor |-> 20],
       [region |-> "new york", factor |-> 18],
       [region |-> "massachusetts", factor |-> 22],
       [region |-> "texas", factor |-> 12],
       [region |-> "florida", factor |-> 11],
       [region |-> "illinois", factor |-> 13],
       [region |-> "default", factor |-> 12] >>

---------------------------------------------------------------------------
(* rules_engine.py: RulesBasedRecommendationEngine *)

\* The first region of the table, in insertion order, that is not "default"
\* and is a substring of the lowercased location; else the "default" entry.
_get_regional_factor(factors, location) ==
    LET location_lower == Lower(location)
        hits == {i \in 1..Len(factors) :
                    /\ factors[i].region # "default"
                    /\ Contains(location_lower, factors[i].region)}
        first == CHOOSE i \in hits : \A j \in hits : i <= j
        dflt == CHOOSE i \in 1..Len(factors) : factors[i].region = "default"
    IN  IF hits # {} THEN factors[first].factor ELSE factors[dflt].factor

\* Python: x in lst
InList(x, lst) == \E i \in 1..Len(lst) : lst[i] = x

\* _is_rule_applicable without its therms checks.
is_rule_applicable_ignoring_therms(rule, business_data, industry, company_size, goals) ==
    /\ ~(TruthyNum(rule.min_kwh) /\ business_data.monthly_kwh < Val(rule.min_kwh))
    /\ ~(TruthyNum(rule.max_kwh) /\ business_data.monthly_kwh > Val(rule.max_kwh))
    /\ ~(TruthyList(rule.applicable_industries)
          /\ ~InList(industry, Val(rule.applicable_industries)))
    /\ ~(TruthyList(rule.applicable_sizes)
          /\ ~InList(company_size, Val(rule.applicable_sizes)))
    /\ ~(TruthyList(rule.required_goals)
          /\ ~(\E i \in 1..Len(Val(rule.required_goals)) :
                  Val(rule.required_goals)[i] \in goals))

\* _is_rule_applicable asking for more than min_kwh, not at least min_kwh.
is_rule_applicable_above_min_kwh(rule, business_data, industry, company_size, goals) ==
    /\ ~(TruthyNum(rule.min_kwh) /\ business_data.monthly_kwh <= Val(rule.min_kwh))
    /\ ~(TruthyNum(rule.max_kwh) /\ business_data.monthly_kwh > Val(rule.max_kwh))
    /\ ~(TruthyNum(rule.min_therms)
          /\ business_data.monthly_therms < Val(rule.min_therms))
    /\ ~(TruthyNum(rule.max_therms)
          /\ business_data.monthly_therms > Val(rule.max_therms))
    /\ ~(TruthyList(rule.applicable_industries)
          /\ ~InList(industry, Val(rule.applicable_industries)))
    /\ ~(TruthyList(rule.applicable_sizes)
          /\ ~InList(company_size, Val(rule.applicable_sizes)))
    /\ ~(TruthyList(rule.required_goals)
          /\ ~(\E i \in 1..Len(Val(rule.required_goals)) :
                  Val(rule.required_goals)[i] \in goals))

_is_rule_applicable(rule, business_data, industry, company_size, goals) ==
    IF TruthyNum(rule.min_kwh) /\ business_data.monthly_kwh < Val(rule.min_kwh)
      THEN FALSE
    ELSE IF TruthyNum(rule.max_kwh) /\ business_data.monthly_kwh > Val(rule.max_kwh)
      THEN FALSE
    ELSE IF TruthyNum(rule.min_therms)
            /\ business_data.monthly_therms < Val(rule.min_therms)
      THEN FALSE
    ELSE IF TruthyNum(rule.max_therms)
            /\ business_data.monthly_therms > Val(rule.max_therms)
      THEN FALSE
    ELSE IF TruthyList(rule.applicable_industries)
            /\ ~InList(industry, Val(rule.applicable_industries))
      THEN FALSE
    ELSE IF TruthyList(rule.applicable_sizes)
            /\ ~InList(company_size, Val(rule.applicable_sizes))
      THEN FALSE
    ELSE IF TruthyList(rule.required_goals)
            /\ ~(\E i \in 1..Len(Val(rule.required_goals)) :
                    Val(rule.required_goals)[i] \in goals)
      THEN FALSE
    ELSE TRUE

\* max(0.1, min(1.0, priority)), priority x100.
ClampPriorityUnclamped(priority) == priority
ClampPriority(priority) == Max2(10, Min2(100, priority))

\* estimated_savings is x4 (1e-4 dollars); the result is x100.
_calculate_priority_score(rule, business_data, estimated_savings, roi_months) ==
    LET roi_bonus == IF roi_months <= 12 THEN 20
                     ELSE IF roi_months <= 24 THEN 10
                     ELSE IF roi_months > 48 THEN -10
                     ELSE 0
        savings_bonus == IF estimated_savings > 10000 * 10000 THEN 15
                         ELSE IF estimated_savings > 5000 * 10000 THEN 10
                         ELSE IF estimated_savings > 2000 * 10000 THEN 5
                         ELSE 0
        usage_bonus == IF business_data.monthly_kwh > 5000 THEN 10 ELSE 0
    IN  ClampPriority(rule.base_priority + roi_bonus + savings_bonus + usage_bonus)

\* int((implementation_cost / estimated_savings) * 12) for estimated_savings
\* > 0, where implementation_cost = estimated_savings * factor.  In binary64
\* the quotient (s * f) / s is f itself when f is a whole number (1, 2, 3, 4
\* in the catalog); for f = 2.5 it is 2.5 or the double just below, depending
\* on s, so int(...) is 30 or 29.  below says which of the two the float
\* arithmetic produced.
RoiMonthsFromFactor(factor_x10, below) ==
    LET months == (factor_x10 * 12) \div 10
    IN  IF factor_x10 % 10 # 0 /\ below THEN months - 1 ELSE months

\* Result units: estimated_cost_savings in cents, estimated_co2_reduction in
\* hundredths of a pound, priority_score x100.
\* _create_recommendation_from_rule reading the table it is given as
\* self.regional_factors.
create_recommendation(self_regional_factors, rule, business_data, below) ==
    LET electricity_rate ==
            _get_regional_factor(self_regional_factors.electricity_rate,
                                 business_data.location)
        \* cents
        annual_electricity_cost == business_data.monthly_kwh * 12 * electricity_rate
        annual_gas_cost == business_data.monthly_therms * 12 * 120
        \* x4 dollars
        estimated_savings ==
            (annual_electricity_cost + annual_gas_cost) * rule.cost_savings_factor
        \* hundredths of a pound
        annual_co2_lbs ==
            (business_data.monthly_kwh * 92 + business_data.monthly_therms * 1170) * 12
        \* x4 pounds
        estimated_co2_reduction == annual_co2_lbs * rule.co2_reduction_factor
        roi_months ==
            IF estimated_savings > 0
            THEN Max2(6, RoiMonthsFromFactor(rule.implementation_cost_factor, below))
            ELSE rule.base_roi_months
        priority_score ==
            _calculate_priority_score(rule, business_data, estimated_savings, roi_months)
    IN  [id |-> rule.rule_id,
         title |-> rule.title,
         category |-> rule.category,
         estimated_cost_savings |-> RoundHalfEven(estimated_savings, 100),
         estimated_co2_reduction |-> RoundHalfEven(estimated_co2_reduction, 100),
         roi_months |-> roi_months,
         difficulty |-> rule.difficulty,
         priority_score |-> priority_score]

\* self.regional_factors as __init__ leaves it.
engine_regional_factors == [electricity_rate |-> electricity_rate_table]

_create_recommendation_from_rule(rule, business_data, below) ==
    create_recommendation(engine_regional_factors, rule, business_data, below)

\* A stable ascending sort by priority_score: x goes after every element
\* whose key is not greater.
RECURSIVE InsertAfterEqual(_, _)
InsertAfterEqual(x, sorted) ==
    IF Len(sorted) = 0 THEN <<x>>
    ELSE IF Head(sorted).priority_score <= x.priority_score
      THEN <<Head(sorted)>> \o InsertAfterEqual(x, Tail(sorted))
    ELSE <<x>> \o sorted

RECURSIVE StableSortAscending(_)
StableSortAscending(l) ==
    IF Len(l) = 0 THEN <<>>
    ELSE InsertAfterEqual(l[Len(l)], StableSortAscending(SubSeq(l, 1, Len(l) - 1)))

\* list.sort(key=priority_score, reverse=True): CPython reverses the list,
\* sorts it stably in ascending order and reverses the result, which keeps
\* equal keys in their original order.
SortByPriorityReversedTies(recommendations) ==
    Reverse(StableSortAscending(recommendations))
SortByPriorityDescending(recommendations) ==
    Reverse(StableSortAscending(Reverse(recommendations)))

RECURSIVE FilterApplicable(_, _, _, _, _)
FilterApplicable(rule_list, business_data, industry, company_size, goals) ==
    IF Len(rule_list) = 0 THEN <<>>
    ELSE (IF _is_rule_applicable(Head(rule_list), business_data, industry,
                                 company_size, goals)
          THEN <<Head(rule_list)>> ELSE <<>>)
         \o FilterApplicable(Tail(rule_list), business_data, industry, company_size, goals)

\* The rules of self.rules that pass the filter, in catalog order.
applicable_rules(business_data) ==
    FilterApplicable(_initialize_rules, business_data,
                     categorize_industry(business_data.industry),
                     categorize_company_size(business_data.size),
                     categorize_goals(business_data.sustainability_goals))

\* The loop over applicable_rules stopping one rule short.
recommendations_missing_last(business_data, below) ==
    LET applicable == applicable_rules(business_data)
    IN  [i \in 1..(Len(applicable) - 1) |->
            _create_recommendation_from_rule(applicable[i], business_data, below)]

\* One recommendation per applicable rule, before the sort.
recommendations_unsorted(business_data, below) ==
    LET applicable == applicable_rules(business_data)
    IN  [i \in 1..Len(applicable) |->
            _create_recommendation_from_rule(applicable[i], business_data, below)]

\* generate_recommendations returning the whole sorted list.
generate_recommendations_untruncated(business_data, below) ==
    SortByPriorityDescending(recommendations_unsorted(business_data, below))

\* recommendations.sort(key=priority_score, reverse=True); recommendations[:8]
generate_recommendations(business_data, below) ==
    LET sorted == SortByPriorityDescending(recommendations_unsorted(business_data, below))
    IN  SubSeq(sorted, 1, Min2(8, Len(sorted)))

---------------------------------------------------------------------------
(* calculations.py: SustainabilityCalculator *)

\* A float that may be float('inf'): v is meaningful when inf is FALSE.
Inf == [inf |-> TRUE, v |-> 0]
Fin(n) == [inf |-> FALSE, v |-> n]

\* x <= n and x > n for such a float x and a finite n.
LeqNum(x, n) == ~x.inf /\ x.v <= n
GtNum(x, n) == x.inf \/ x.v > n

\* max(0.1, min(1.0, round(score, 2))), score x100 (round is exact on it).
ClampScore(score) == Max2(10, Min2(100, score))

\* difficulty_adjustments.get(implementation_difficulty, 0), x100.
difficulty_adjustment(implementation_difficulty) ==
    IF implementation_difficulty = "Easy" THEN 10
    ELSE IF implementation_difficulty = "Medium" THEN 0
    ELSE IF implementation_difficulty = "Hard" THEN -10
    ELSE 0

\* generate_priority_score adding 0.15 for a payback above 60 months.
generate_priority_score_slow_payback_bonus(roi_months, annual_savings, co2_reduction_tons, implementation_difficulty, energy_usage) ==
    LET roi_factor == IF LeqNum(roi_months, 12) THEN 25
                      ELSE IF LeqNum(roi_months, 24) THEN 15
                      ELSE IF LeqNum(roi_months, 36) THEN 5
                      ELSE IF GtNum(roi_months, 60) THEN 15
                      ELSE 0
        savings_factor == IF annual_savings > 20000 THEN 20
                          ELSE IF annual_savings > 10000 THEN 15
                          ELSE IF annual_savings > 5000 THEN 10
                          ELSE IF annual_savings > 2000 THEN 5
                          ELSE 0
        co2_factor == IF co2_reduction_tons > 500 THEN 15
                      ELSE IF co2_reduction_tons > 250 THEN 10
                      ELSE IF co2_reduction_tons > 100 THEN 5
                      ELSE 0
        usage_bonus == IF energy_usage > 10000 THEN 10 ELSE 0
    IN  ClampScore(50 + roi_factor + savings_factor + co2_factor
                   + difficulty_adjustment(implementation_difficulty) + usage_bonus)

\* roi_months: months, possibly Inf; annual_savings: dollars;
\* co2_reduction_tons: x10; energy_usage: kWh.  The result is x100.
generate_priority_score(roi_months, annual_savings, co2_reduction_tons, implementation_difficulty, energy_usage) ==
    LET roi_factor == IF LeqNum(roi_months, 12) THEN 25
                      ELSE IF LeqNum(roi_months, 24) THEN 15
                      ELSE IF LeqNum(roi_months, 36) THEN 5
                      ELSE IF GtNum(roi_months, 60) THEN -15
                      ELSE 0
        savings_factor == IF annual_savings > 20000 THEN 20
                          ELSE IF annual_savings > 10000 THEN 15
                          ELSE IF annual_savings > 5000 THEN 10
                          ELSE IF annual_savings > 2000 THEN 5
                          ELSE 0
        co2_factor == IF co2_reduction_tons > 500 THEN 15
                      ELSE IF co2_reduction_tons > 250 THEN 10
                      ELSE IF co2_reduction_tons > 100 THEN 5
                      ELSE 0
        usage_bonus == IF energy_usage > 10000 THEN 10 ELSE 0
    IN  ClampScore(50 + roi_factor + savings_factor + co2_factor
                   + difficulty_adjustment(implementation_difficulty) + usage_bonus)

\* self.regional_factors, in insertion order.  Units: electricity_rate x4
\* ($/kWh), gas_rate x100 ($/therm), co2_emission_factor x3 (lbs/kWh),
\* gas_emission_factor x10 (lbs/therm), solar_potential kWh/kW/year,
\* utility_rebate_multiplier x10, labor_cost_multiplier x100.
_initialize_regional_factors ==
    << [region |-> "california",
        factors |-> [electricity_rate |-> 2245, gas_rate |-> 135,
                     co2_emission_factor |-> 651, gas_emission_factor |-> 117,
                     solar_potential |-> 1850, heating_degree_days |-> 1500,
                     cooling_degree_days |-> 1200,
                     utility_rebate_multiplier |-> 14,
                     labor_cost_multiplier |-> 130]],
       [region |-> "texas",
        factors |-> [electricity_rate |-> 1189, gas_rate |-> 112,
                     co2_emission_factor |-> 995, gas_emission_factor |-> 117,
                     solar_potential |-> 1650, heating_degree_days |-> 1600,
                     cooling_degree_days |-> 2800,
                     utility_rebate_multiplier |-> 8,
                     labor_cost_multiplier |-> 90]],
       [region |-> "new york",
        factors |-> [electricity_rate |-> 1825, gas_rate |-> 148,
                     co2_emission_factor |-> 578, gas_emission_factor |-> 117,
                     solar_potential |-> 1300, heating_degree_days |-> 4800,
                     cooling_degree_days |-> 900,
                     utility_rebate_multiplier |-> 12,
                     labor_cost_multiplier |-> 140]],
       [region |-> "florida",
        factors |-> [electricity_rate |-> 1147, gas_rate |-> 125,
                     co2_emission_factor |-> 892, gas_emission_factor |-> 117,
                     solar_potential |-> 1800, heating_degree_days |-> 600,
                     cooling_degree_days |-> 3500,
                     utility_rebate_multiplier |-> 9,
                     labor_cost_multiplier |-> 95]],
       [region |-> "default",
        factors |-> [electricity_rate |-> 1378, gas_rate |-> 128,
                     co2_emission_factor |-> 855, gas_emission_factor |-> 117,
                     solar_potential |-> 1500, heating_degree_days |-> 3000,
                     cooling_degree_days |-> 1500,
                     utility_rebate_multiplier |-> 10,
                     labor_cost_multiplier |-> 100]] >>

\* self.regional_factors[key]
RegionalFactorsOf(key) ==
    LET i == CHOOSE j \in 1..Len(_initialize_regional_factors) :
                 _initialize_regional_factors[j].region = key
    IN  _initialize_regional_factors[i].factors

\* The lookup with the lowercasing of the location left out.
get_regional_factors_case_sensitive(location) ==
    LET table == _initialize_regional_factors
        hits == {i \in 1..Len(table) :
                    /\ table[i].region # "default"
                    /\ Contains(location, table[i].region)}
        first == CHOOSE i \in hits : \A j \in hits : i <= j
    IN  IF hits # {} THEN table[first].factors ELSE RegionalFactorsOf("default")

get_regional_factors(location) ==
    LET location_lower == Lower(location)
        table == _initialize_regional_factors
        hits == {i \in 1..Len(table) :
                    /\ table[i].region # "default"
                    /\ Contains(location_lower, table[i].region)}
        first == CHOOSE i \in hits : \A j \in hits : i <= j
    IN  IF hits # {} THEN table[first].factors ELSE RegionalFactorsOf("default")

\* IncentiveData.  value and max_value are in cents, percentage in percent.
\* The description, expiration_date and application_process of an incentive
\* are read by no method and are not modelled.
federal_incentives ==
    << [type |-> "tax_credit",
        name |-> "Commercial Solar Investment Tax Credit",
        value |-> 3000, max_value |-> None, percentage |-> Some(30),
        eligibility |-> <<"solar", "renewable_energy">>],
       [type |-> "deduction",
        name |-> "Section 179D Energy Efficient Commercial Building Deduction",
        value |-> 188, max_value |-> Some(100000000), percentage |-> None,
        eligibility |-> <<"hvac", "lighting", "building_envelope">>],
       [type |-> "tax_credit",
        name |-> "Commercial Energy Efficiency Tax Credit",
        value |-> 2500, max_value |-> None, percentage |-> Some(25),
        eligibility |-> <<"hvac", "lighting", "building_systems">>] >>

california_incentives ==
    federal_incentives \o
    << [type |-> "rebate",
        name |-> "Self-Generation Incentive Program (SGIP)",
        value |-> 15000, max_value |-> None, percentage |-> None,
        eligibility |-> <<"battery_storage", "fuel_cells">>],
       [type |-> "rebate",
        name |-> "Energy Efficiency Rebates",
        value |-> 50000, max_value |-> None, percentage |-> None,
        eligibility |-> <<"led_lighting", "hvac", "motors">>] >>

texas_incentives ==
    federal_incentives \o
    << [type |-> "loan",
        name |-> "Texas LoanSTAR Revolving Loan Program",
        value |-> 0, max_value |-> None, percentage |-> None,
        eligibility |-> <<"energy_efficiency", "renewable_energy">>] >>

\* The keys of self.incentive_database, in insertion order.
IncentiveRegions == <<"california", "texas", "default">>

\* self.incentive_database[key]
incentive_database(key) ==
    IF key = "california" THEN california_incentives
    ELSE IF key = "texas" THEN texas_incentives
    ELSE federal_incentives

\* self.incentive_database.get(location.lower(), self.incentive_database['default'])
incentive_bucket(location) ==
    IF InList(Lower(location), IncentiveRegions)
    THEN incentive_database(Lower(location))
    ELSE incentive_database("default")

\* The eligibility test with only one direction of containment.
is_applicable_incentive_one_way(incentive, category) ==
    \E i \in 1..Len(incentive.eligibility) :
        Contains(Lower(category), incentive.eligibility[i])

\* any(eligibility in category.lower() or category.lower() in eligibility ...)
is_applicable_incentive(incentive, category) ==
    \E i \in 1..Len(incentive.eligibility) :
        \/ Contains(Lower(category), incentive.eligibility[i])
        \/ Contains(incentive.eligibility[i], Lower(category))

RECURSIVE SelectApplicable(_, _)
SelectApplicable(incentives, category) ==
    IF Len(incentives) = 0 THEN <<>>
    ELSE (IF is_applicable_incentive(Head(incentives), category)
          THEN <<Head(incentives)>> ELSE <<>>)
         \o SelectApplicable(Tail(incentives), category)

\* What one incentive adds to total_incentive_value, in cents, for an
\* implementation cost in whole dollars (so that cost * percentage / 100 is a
\* whole number of cents).
incentive_contribution(incentive, implementation_cost) ==
    IF TruthyNum(incentive.percentage)
    THEN LET percentage_value == implementation_cost * Val(incentive.percentage)
         IN  IF TruthyNum(incentive.max_value)
             THEN Min2(percentage_value, Val(incentive.max_value))
             ELSE percentage_value
    ELSE incentive.value

RECURSIVE SumContributions(_, _)
SumContributions(incentives, implementation_cost) ==
    IF Len(incentives) = 0 THEN 0
    ELSE incentive_contribution(Head(incentives), implementation_cost)
         + SumContributions(Tail(incentives), implementation_cost)

\* implementation_cost is in whole dollars.  Result units:
\* total_incentive_value and post_incentive_cost in cents (every amount is a
\* whole number of cents, which round(x, 2) leaves unchanged);
\* optimized_payback_reduction x10 (percent, one decimal).  The
\* business_profile argument is not read.
calculate_incentive_optimization(category, implementation_cost, location) ==
    LET incentives == incentive_bucket(location)
        applicable_incentives == SelectApplicable(incentives, category)
        total_incentive_value ==
            SumContributions(applicable_incentives, implementation_cost)
        post_incentive_cost == implementation_cost * 100 - total_incentive_value
        payback_reduction ==
            IF implementation_cost > 0
            THEN RoundHalfEven(total_incentive_value * 10, implementation_cost)
            ELSE 0
    IN  [applicable_incentives |->
            [i \in 1..Len(applicable_incentives) |-> applicable_incentives[i].name],
         total_incentive_value |-> total_incentive_value,
         post_incentive_cost |-> post_incentive_cost,
         optimized_payback_reduction |-> payback_reduction]

\* An exception leaving a function.
Raised(exception) == [raised |-> exception]
IsRaised(result) == "raised" \in DOMAIN result

\* EnergyData: monthly_kwh, monthly_therms; electricity_cost x4 ($/kWh) and
\* gas_cost x100 ($/therm), demand_charges ($/kW) and peak_demand_kw are
\* Optional.  Result units: costs in cents, average_rate x4.
\* average_rate divides by (monthly_kwh + monthly_therms * 3.412) * 12, which
\* raises ZeroDivisionError when that is zero; the factor 12 of
\* total_annual_cost cancels against it.
calculate_energy_costs(energy, location) ==
    LET factors == get_regional_factors(location)
        \* x4
        electricity_rate == IF TruthyNum(energy.electricity_cost)
                            THEN Val(energy.electricity_cost)
                            ELSE factors.electricity_rate
        \* x100
        gas_rate == IF TruthyNum(energy.gas_cost)
                    THEN Val(energy.gas_cost)
                    ELSE factors.gas_rate
        \* x4 dollars
        monthly_electricity_cost == energy.monthly_kwh * electricity_rate
        monthly_gas_cost == energy.monthly_therms * gas_rate * 100
        demand_cost ==
            IF TruthyNum(energy.demand_charges) /\ TruthyNum(energy.peak_demand_kw)
            THEN Val(energy.demand_charges) * Val(energy.peak_demand_kw) * 10000
            ELSE 0
        total_monthly_cost == monthly_electricity_cost + monthly_gas_cost + demand_cost
        total_annual_cost == total_monthly_cost * 12
        \* x1000: monthly_kwh + monthly_therms * 3.412
        usage == energy.monthly_kwh * 1000 + energy.monthly_therms * 3412
    IN  IF usage = 0 THEN Raised("ZeroDivisionError")
        ELSE [annual_electricity_cost |-> RoundHalfEven(monthly_electricity_cost * 12, 100),
              annual_gas_cost |-> RoundHalfEven(monthly_gas_cost * 12, 100),
              total_annual_cost |-> RoundHalfEven(total_annual_cost, 100),
              monthly_electricity_cost |-> RoundHalfEven(monthly_electricity_cost, 100),
              monthly_gas_cost |-> RoundHalfEven(monthly_gas_cost, 100),
              average_rate |-> IF usage > 0
                               THEN RoundHalfEven(total_monthly_cost * 1000, usage)
                               ELSE RoundHalfEven(-(total_monthly_cost * 1000), -usage)]

\* The footprint with a standing load of 1 lb a month added to the usage.
calculate_carbon_footprint_base_load(energy, location) ==
    LET factors == get_regional_factors(location)
        electricity_co2_lbs == energy.monthly_kwh * factors.co2_emission_factor
        gas_co2_lbs == energy.monthly_therms * factors.gas_emission_factor * 100
        total_monthly_lbs == electricity_co2_lbs + gas_co2_lbs + 1000
    IN  [annual_co2_tons |-> RoundHalfEven(total_monthly_lbs * 12, 20000),
         monthly_co2_tons |-> RoundHalfEven(total_monthly_lbs, 20000),
         electricity_co2 |-> RoundHalfEven(electricity_co2_lbs, 10),
         gas_co2 |-> RoundHalfEven(gas_co2_lbs, 10),
         total_co2_lbs |-> RoundHalfEven(total_monthly_lbs * 12, 10)]

\* Result units: tons x100, pounds x100.
calculate_carbon_footprint(energy, location) ==
    LET factors == get_regional_factors(location)
        \* x3 pounds
        electricity_co2_lbs == energy.monthly_kwh * factors.co2_emission_factor
        gas_co2_lbs == energy.monthly_therms * factors.gas_emission_factor * 100
        total_monthly_lbs == electricity_co2_lbs + gas_co2_lbs
    IN  [annual_co2_tons |-> RoundHalfEven(total_monthly_lbs * 12, 20000),
         monthly_co2_tons |-> RoundHalfEven(total_monthly_lbs, 20000),
         electricity_co2 |-> RoundHalfEven(electricity_co2_lbs, 10),
         gas_co2 |-> RoundHalfEven(gas_co2_lbs, 10),
         total_co2_lbs |-> RoundHalfEven(total_monthly_lbs * 12, 10)]

\* The payback with a large finite number of months in place of float('inf').
roi_months_of_sentinel(implementation_cost, total_annual_savings) ==
    IF total_annual_savings > 0
    THEN Fin(RoundHalfEven(implementation_cost * 1200000, total_annual_savings))
    ELSE Fin(99990)

\* round(implementation_cost / (total_annual_savings / 12), 1) if
\* total_annual_savings > 0 else float('inf'); implementation_cost in
\* dollars, total_annual_savings x4 dollars, the result x10 months.
roi_months_of(implementation_cost, total_annual_savings) ==
    IF total_annual_savings > 0
    THEN Fin(RoundHalfEven(implementation_cost * 1200000, total_annual_savings))
    ELSE Inf

\* energy_savings_percent x100 (a fraction), implementation_cost and
\* maintenance_savings in whole dollars.  Result units: annual_savings in
\* cents, roi_months and break_even_year x10, internal_rate_of_return x100
\* (percent), total_co2_reduction x100 (tons).  net_present_value, which
\* discounts by powers of 1.07, is not modelled.  The category argument is
\* not read.  An exception of calculate_energy_costs propagates.
calculate_recommendation_roi(energy_savings_percent, implementation_cost, energy, location, category, maintenance_savings) ==
    LET costs == calculate_energy_costs(energy, location)
        carbon_data == calculate_carbon_footprint(energy, location)
        \* x4 dollars
        energy_savings == costs.total_annual_cost * energy_savings_percent
        total_annual_savings == energy_savings + maintenance_savings * 10000
        roi_months == roi_months_of(implementation_cost, total_annual_savings)
        irr == IF implementation_cost > 0
               THEN RoundHalfEven(total_annual_savings, implementation_cost) - 10000
               ELSE 0
        \* x4 tons
        co2_reduction == carbon_data.annual_co2_tons * energy_savings_percent
    IN  IF IsRaised(costs) THEN costs
        ELSE [annual_savings |-> RoundHalfEven(total_annual_savings, 100),
              roi_months |-> roi_months,
              internal_rate_of_return |-> irr,
              break_even_year |->
                  IF total_annual_savings > 0
                  THEN Fin(RoundHalfEven(implementation_cost * 100000,
                                         total_annual_savings))
                  ELSE Inf,
              total_co2_reduction |-> RoundHalfEven(co2_reduction, 100)]

\* round(a * b / (10000 * d)) to the nearest integer, ties to even, for
\* a, b >= 0 and d > 0, without forming the product a * b: a is split at
\* 10^4 so that every intermediate stays below 2^31.
RoundProduct(a, b, d) ==
    LET high == (a \div 10000) * b
        low == (a % 10000) * b
        top == high + (low \div 10000)
        q == top \div d
        r == (top % d) * 10000 + (low % 10000)
        whole == 10000 * d
    IN  IF 2 * r < whole THEN q
        ELSE IF 2 * r > whole THEN q + 1
        ELSE IF q % 2 = 0 THEN q ELSE q + 1

\* roi_years with 0 in place of float('inf').
solar_roi_years_zero(system_size_kw, factors) ==
    IF system_size_kw * factors.solar_potential * factors.electricity_rate > 0
    THEN Fin(RoundHalfEven(250000000,
                           factors.solar_potential * factors.electricity_rate))
    ELSE Fin(0)

\* round(estimated_cost / annual_savings, 1) if annual_savings > 0 else
\* float('inf'), x10 years.  Both are multiples of system_size_kw:
\* estimated_cost = system_size_kw * 2500 and annual_savings =
\* system_size_kw * solar_potential * electricity_rate, so the quotient is
\* 2500 / (solar_potential * electricity_rate) whenever the savings are > 0.
solar_roi_years(system_size_kw, factors) ==
    IF system_size_kw > 0 /\ factors.solar_potential > 0
           /\ factors.electricity_rate > 0
    THEN Fin(RoundHalfEven(250000000,
                           factors.solar_potential * factors.electricity_rate))
    ELSE Inf

\* facility_size in square feet, roof_percentage x10 (a fraction), both
\* >= 0.  Result units: estimated_system_size_kw x10, annual_generation_kwh
\* whole, annual_savings and estimated_cost in cents, roi_years x10,
\* co2_offset_tons x100.
calculate_solar_potential(facility_size, location, roof_percentage) ==
    LET factors == get_regional_factors(location)
        \* x10 square feet
        usable_roof_area == facility_size * roof_percentage
        \* x4 kW
        system_size_kw == usable_roof_area * 7
        \* x4 kWh
        annual_generation_kwh == system_size_kw * factors.solar_potential
    IN  [estimated_system_size_kw |-> RoundHalfEven(system_size_kw, 1000),
         annual_generation_kwh |-> RoundHalfEven(annual_generation_kwh, 10000),
         annual_savings |->
             RoundProduct(annual_generation_kwh, factors.electricity_rate, 100),
         estimated_cost |-> system_size_kw * 25,
         roi_years |-> solar_roi_years(system_size_kw, factors),
         co2_offset_tons |->
             RoundProduct(annual_generation_kwh, factors.co2_emission_factor, 20000)]

\* An exact quotient n/d, d # 0, in lowest terms with a positive denominator.
RECURSIVE GCD(_, _)
GCD(a, b) == IF b = 0 THEN a ELSE GCD(b, a % b)
Abs(n) == IF n < 0 THEN -n ELSE n
Quotient(n, d) ==
    LET g == GCD(Abs(n), Abs(d))
        sign == IF d < 0 THEN -1 ELSE 1
    IN  [inf |-> FALSE, num |-> (sign * n) \div g, den |-> Abs(d) \div g]
InfQuotient == [inf |-> TRUE, num |-> 0, den |-> 1]

\* calculations.calculate_roi: months, as an exact quotient or float('inf').
calculate_roi(annual_savings, implementation_cost) ==
    IF annual_savings <= 0
    THEN IF annual_savings = 0 THEN InfQuotient
         ELSE Quotient(-implementation_cost * 12, annual_savings)
    ELSE Quotient(implementation_cost * 12, annual_savings)

---------------------------------------------------------------------------
(* services/prompt_engineering.py: PromptEngineeringService *)

\* The keys of self.templates, in insertion order.  A template is modelled
\* by its id, which is its key; its prompts are not modelled.
_initialize_templates ==
    << "sustainability_core_v2",
       "technology_focused_v1", "manufacturing_focused_v1",
       "retail_focused_v1", "healthcare_focused_v1",
       "small_business_v1", "enterprise_v1",
       "carbon_neutral_v1", "cost_optimization_v1" >>

\* self.templates.get(key): the template, or None.
TemplateGet(key) == IF InList(key, _initialize_templates) THEN Some(key) ELSE None

\* ' '.join(goals)
RECURSIVE JoinWithSpace(_)
JoinWithSpace(strings) ==
    IF Len(strings) = 0 THEN ""
    ELSE IF Len(strings) = 1 THEN strings[1]
    ELSE strings[1] \o " " \o JoinWithSpace(Tail(strings))

\* One `if any(...): if key in self.templates: templates.append(...)`.
IndustryTemplate(keywords, industry_lower, key) ==
    IF AnyKeywordIn(keywords, industry_lower) /\ InList(key, _initialize_templates)
    THEN <<key>> ELSE <<>>

_get_industry_templates(industry) ==
    LET industry_lower == Lower(industry)
    IN  IndustryTemplate(<<"tech", "software">>, industry_lower,
                         "technology_focused_v1")
        \o IndustryTemplate(<<"manufacturing", "industrial">>, industry_lower,
                            "manufacturing_focused_v1")
        \o IndustryTemplate(<<"retail", "store">>, industry_lower,
                            "retail_focused_v1")
        \o IndustryTemplate(<<"health", "medical">>, industry_lower,
                            "healthcare_focused_v1")

_get_size_template(company_size) ==
    LET size_lower == Lower(company_size)
    IN  IF AnyKeywordIn(<<"1-50", "small">>, size_lower)
          THEN TemplateGet("small_business_v1")
        ELSE IF AnyKeywordIn(<<"1000+", "enterprise">>, size_lower)
          THEN TemplateGet("enterprise_v1")
        ELSE None

_get_goal_template(goals) ==
    LET goals_text == Lower(JoinWithSpace(goals))
    IN  IF AnyKeywordIn(<<"carbon neutral", "net zero">>, goals_text)
          THEN TemplateGet("carbon_neutral_v1")
        ELSE IF AnyKeywordIn(<<"cost", "savings", "budget">>, goals_text)
          THEN TemplateGet("cost_optimization_v1")
        ELSE None

\* The selection with the industry templates tried before the goal template.
select_optimal_prompt_industry_first(request) ==
    LET industry_templates == _get_industry_templates(request.industry)
        size_template == _get_size_template(request.company_size)
        goal_template == _get_goal_template(request.sustainability_goals)
    IN  IF Len(industry_templates) > 0 THEN industry_templates[1]
        ELSE IF goal_template # None THEN Val(goal_template)
        ELSE IF size_template # None THEN Val(size_template)
        ELSE "sustainability_core_v2"

\* A PromptTemplate object is true, None and the empty list are false.
select_optimal_prompt(request) ==
    LET industry_templates == _get_industry_templates(request.industry)
        size_template == _get_size_template(request.company_size)
        goal_template == _get_goal_template(request.sustainability_goals)
    IN  IF goal_template # None THEN Val(goal_template)
        ELSE IF Len(industry_templates) > 0 THEN industry_templates[1]
        ELSE IF size_template # None THEN Val(size_template)
        ELSE "sustainability_core_v2"

---------------------------------------------------------------------------
(* main.py: the rules-based recommendation endpoint *)

\* main.Recommendation built from one dict of the engine. Its amounts are
\* kept in thousandths, the engine's in hundredths; priority_score stays in
\* hundredths.
Recommendation(rec_data) ==
    [id |-> rec_data.id,
     title |-> rec_data.title,
     category |-> rec_data.category,
     estimated_cost_savings |-> rec_data.estimated_cost_savings * 10,
     estimated_co2_reduction |-> rec_data.estimated_co2_reduction * 10,
     roi_months |-> rec_data.roi_months,
     difficulty |-> rec_data.difficulty,
     priority_score |-> rec_data.priority_score]

\* The fallback list with the LED retrofit offered from 800 kWh on.
fallback_recommendations_from_800(business_data) ==
    LET led ==
            IF business_data.monthly_kwh >= 800
            THEN <<[id |-> "led-retrofit-fallback",
                    title |-> "LED Lighting Retrofit",
                    category |-> "Energy Efficiency",
                    estimated_cost_savings |-> business_data.monthly_kwh * 360,
                    estimated_co2_reduction |-> business_data.monthly_kwh * 2760,
                    roi_months |-> 18,
                    difficulty |-> "Easy",
                    priority_score |-> 80]>>
            ELSE <<>>
    IN  led \o <<[id |-> "energy-audit-fallback",
                  title |-> "Professional Energy Audit",
                  category |-> "Assessment",
                  estimated_cost_savings |-> business_data.monthly_kwh * 144,
                  estimated_co2_reduction |-> business_data.monthly_kwh * 1104,
                  roi_months |-> 6,
                  difficulty |-> "Easy",
                  priority_score |-> 90]>>

\* Amounts in thousandths: 0.25 * 0.12 * 12 = 0.36, 0.25 * 0.92 * 12 = 2.76,
\* 0.1 * 0.12 * 12 = 0.144, 0.1 * 0.92 * 12 = 1.104.
_generate_fallback_recommendations(business_data) ==
    LET led ==
            IF business_data.monthly_kwh > 800
            THEN <<[id |-> "led-retrofit-fallback",
                    title |-> "LED Lighting Retrofit",
                    category |-> "Energy Efficiency",
                    estimated_cost_savings |-> business_data.monthly_kwh * 360,
                    estimated_co2_reduction |-> business_data.monthly_kwh * 2760,
                    roi_months |-> 18,
                    difficulty |-> "Easy",
                    priority_score |-> 80]>>
            ELSE <<>>
    IN  led \o <<[id |-> "energy-audit-fallback",
                  title |-> "Professional Energy Audit",
                  category |-> "Assessment",
                  estimated_cost_savings |-> business_data.monthly_kwh * 144,
                  estimated_co2_reduction |-> business_data.monthly_kwh * 1104,
                  roi_months |-> 6,
                  difficulty |-> "Easy",
                  priority_score |-> 90]>>

\* The body of the try block. raises names the place where an Exception is
\* raised: "engine" in rules_engine.generate_recommendations, "conversion"
\* in the construction of the first Recommendation, "nothing" nowhere.
rules_engine_attempt(business_data, below, raises) ==
    IF raises = "engine" THEN Raised("Exception")
    ELSE LET rule_recommendations == generate_recommendations(business_data, below)
         IN  IF raises = "conversion" /\ Len(rule_recommendations) > 0
             THEN Raised("Exception")
             ELSE [recommendations |->
                      [i \in 1..Len(rule_recommendations) |->
                          Recommendation(rule_recommendations[i])]]

generate_rules_based_recommendations(business_data, below, raises) ==
    LET attempt == rules_engine_attempt(business_data, below, raises)
    IN  IF IsRaised(attempt)
        THEN _generate_fallback_recommendations(business_data)
        ELSE attempt.recommendations

---------------------------------------------------------------------------
(* services/prompt_engineering.py: the metrics accumulator *)

\* No list object: the key is not in self.metrics.
NoList == 0

RECURSIVE SumOf(_, _)
SumOf(template_metrics, field) ==
    IF Len(template_metrics) = 0 THEN 0
    ELSE template_metrics[1][field] + SumOf(Tail(template_metrics), field)

\* Qualities and satisfactions in hundredths, and so the averages.
get_template_performance(self_metrics, self_lists, template_id) ==
    LET template_metrics ==
            IF self_metrics[template_id] = NoList THEN <<>>
            ELSE self_lists[self_metrics[template_id]]
    IN  IF Len(template_metrics) = 0
        THEN [avg_quality |-> 0, avg_satisfaction |-> 0, usage_count |-> 0]
        ELSE [avg_quality |->
                  RoundHalfEven(SumOf(template_metrics, "response_quality"),
                                Len(template_metrics)),
              avg_satisfaction |->
                  RoundHalfEven(SumOf(template_metrics, "user_satisfaction"),
                                Len(template_metrics)),
              usage_count |-> Len(template_metrics)]

---------------------------------------------------------------------------
(* Inputs *)

\* The longest list of sustainability goals of a request.
MaxGoals == 3

IndustryStrings == {"Technology", "Manufacturing", "Hotel"}
SizeStrings == {"1-50 employees", "201-1000 employees", "1000+ employees"}
ProfileLocations == {"Los Angeles, California", "Unknown City"}
GoalStrings == {"install solar panels", "save water", "electric fleet"}
MonthlyKwh == {0, 600, 2500, 6000, 20000}
MonthlyTherms == {0, 150}

\* The goal lists of a request: up to MaxGoals goals, either all different
\* (in any order) or one goal repeated.
GoalLists ==
    {g \in UNION {[1..n -> GoalStrings] : n \in 0..MaxGoals} :
        \/ \A i, j \in 1..Len(g) : i # j => g[i] # g[j]
        \/ \A i, j \in 1..Len(g) : g[i] = g[j]}

BusinessData ==
    [industry : IndustryStrings, size : SizeStrings, location : ProfileLocations,
     monthly_kwh : MonthlyKwh, monthly_therms : MonthlyTherms,
     sustainability_goals : GoalLists]

\* Requests with a negative monthly_kwh or monthly_therms.
NegativeUsageProfiles ==
    {b \in [industry : {"Technology"}, size : {"1-50 employees", "1000+ employees"},
            location : ProfileLocations,
            monthly_kwh : {-100, 600}, monthly_therms : {-10, 150},
            sustainability_goals : {<<>>, <<"install solar panels">>}] :
        b.monthly_kwh < 0 \/ b.monthly_therms < 0}

\* Requests around the 5000 kWh threshold of the manufacturing rule, with
\* industries that are, are not, and only seem to be Manufacturing.
ThresholdKwh == {4999, 5000}
ManufacturingScenarios ==
    [industry : {"Manufacturing", "Technology", "Software Manufacturing"},
     size : {"201-1000 employees", "1-50 employees"},
     location : ProfileLocations,
     monthly_kwh : ThresholdKwh \cup {6000}, monthly_therms : MonthlyTherms,
     sustainability_goals : {<<>>, <<"Reduce energy costs by 30%">>}]

\* Requests that name their industry and their goal by the canonical names.
CanonicalNameScenarios ==
    [industry : {"Hospitality"}, size : {"201-1000 employees"},
     location : {"Los Angeles, California"},
     monthly_kwh : {2500, 6000}, monthly_therms : {150},
     sustainability_goals : {<<>>, <<"Renewable Energy">>}]

RequestProfiles ==
    BusinessData \cup NegativeUsageProfiles \cup ManufacturingScenarios
                 \cup CanonicalNameScenarios

\* _is_rule_applicable is given the canonical categories directly.
CanonicalIndustries == {"TECHNOLOGY", "MANUFACTURING", "HOSPITALITY", "OTHER"}
CanonicalSizes == {"SMALL", "MEDIUM", "LARGE", "ENTERPRISE"}
CanonicalGoalSets == SUBSET {"RENEWABLE_ENERGY", "WASTE_REDUCTION", "TRANSPORTATION"}

\* generate_priority_score
RoiMonthsValues == {Fin(3), Fin(12), Fin(18), Fin(30), Fin(48), Fin(72), Inf}
AnnualSavingsValues == {100, 2500, 6000, 15000, 100000}
Co2TonsValues == {1, 120, 300, 1000}
DifficultyStrings == {"Easy", "Medium", "Hard", "Impossible"}
EnergyUsageValues == {100, 20000}

\* get_regional_factors
Locations == {"CALIFORNIA", "california", "Los Angeles, California",
              "Austin, Texas", "New York", "Miami, FLORIDA",
              "From Texas to California", "Unknown City, Unknown State", ""}

\* calculate_incentive_optimization; the costs are whole dollars.
Categories == {"Solar Panel Installation", "renewable_energy", "lighting",
               "HVAC", "light", "non_eligible_category"}
ImplementationCosts == {0, 1, 3, 10000, 50000, 5000000}
IncentiveLocations == {"California", "CALIFORNIA", "Los Angeles, California",
                       "Texas", "Austin, Texas", "New York", "Unknown City"}

\* calculate_recommendation_roi
EnergySavingsPercents == {-10, 0, 25}
RoiImplementationCosts == {0, 500, 1500}
MaintenanceSavings == {-200, 0, 100}
EnergyDataValues ==
    [monthly_kwh : {0, 200, 500}, monthly_therms : {0, 50},
     electricity_cost : {None, Some(1500)}, gas_cost : {None},
     demand_charges : {None, Some(5)}, peak_demand_kw : {Some(3)}]
RoiLocations == {"California", "Unknown City"}

\* calculate_energy_costs and calculate_carbon_footprint: usage that is
\* negative, zero, small and ordinary; custom rates absent, 0 and positive.
UsageKwh == {-100, 0, 2, 200, 500}
UsageTherms == {-10, 0, 1, 50}
UsageLocations == {"California", "Austin, Texas", "Unknown City"}
EnergyCostData ==
    [monthly_kwh : UsageKwh, monthly_therms : UsageTherms,
     electricity_cost : {None, Some(0), Some(1500)},
     gas_cost : {None, Some(0), Some(90)},
     demand_charges : {None, Some(5)}, peak_demand_kw : {Some(3)}]
FootprintData ==
    [monthly_kwh : UsageKwh, monthly_therms : UsageTherms,
     electricity_cost : {None}, gas_cost : {None},
     demand_charges : {None}, peak_demand_kw : {None}]

\* select_optimal_prompt: the fields of a RecommendationRequest it reads.
PromptIndustries == {"Technology", "Industrial Software", "Retail Store",
                     "Medical Manufacturing", "Healthcare", "Hospitality"}
PromptSizes == {"1-50 employees", "Small Enterprise", "51-200 employees",
                "1000+ employees"}
PromptGoalLists ==
    { <<>>, <<"install solar">>, <<"Become Carbon Neutral">>,
      <<"reduce energy costs">>, <<"maximize savings">>,
      <<"reach net", "zero waste">>, <<"zero waste", "reach net">>,
      <<"install solar", "Net Zero by 2030">>,
      <<"budget planning", "carbon neutral operations">> }
PromptRequests ==
    [industry : PromptIndustries, company_size : PromptSizes,
     sustainability_goals : PromptGoalLists]

\* calculate_roi, in dollars
RoiAnnualSavings == {-1000, -500, 0, 1000, 5000}
RoiCosts == {0, 7, 10000, 30000}

\* calculate_solar_potential: facility sizes in square feet and roof
\* fractions x10, each with 0.
FacilitySizes == {0, 4000, 12000}
RoofPercentages == {0, 5, 7, 8}
SolarLocations == {"California", "Austin, Texas", "New York", "Miami, FLORIDA",
                   "Unknown City"}

\* Requests to the endpoint, on both sides of the fallback's 800 kWh line.
EndpointKwh == {0, 600, 800, 801, 2500}
EndpointRequests ==
    [industry : {"Technology", "Family Restaurant"},
     size : {"1-50 employees", "1000+ employees"},
     location : {"Austin, Texas"},
     monthly_kwh : EndpointKwh, monthly_therms : {0, 150},
     sustainability_goals : {<<>>, <<"install solar panels">>}]
EngineFailures == {"nothing", "engine", "conversion"}

\* record_metrics: the threads, the most calls they make together, the
\* prompt ids and the PromptMetrics recorded.
Recorders == {"t1", "t2"}
MaxRecordCalls == 3
MetricPromptIds == {"sustainability_core_v2", "tech_industry_v2"}
PromptMetricsValues ==
    [response_quality : {70, 95}, user_satisfaction : {80}]

\* Requests served concurrently by the one engine.
EngineRequestIds == {"r1", "r2"}
EngineProfiles ==
    [industry : {"Technology", "Family Restaurant"},
     size : {"1-50 employees"},
     location : {"Los Angeles, California", "Unknown City"},
     monthly_kwh : {600, 6000}, monthly_therms : {150},
     sustainability_goals : {<<"install solar panels">>}]

\* The normalizer: strings in either case, matching one keyword list,
\* several, or none; the empty string; goal lists of up to two of them.
NormalizerIndustries ==
    {"Technology", "SOFTWARE house", "Hospitality", "Hotel", "University",
     "Medical Factory", "Hospital", "Retail Bank", "School", "Farming",
     "Shipping", "Building Supplies", "Bank", "Agriculture", "Construction",
     "Logistics", "Production Plant", "Consulting", "Law", ""}
    \cup {IndustryType[m] : m \in DOMAIN IndustryType}
NormalizerSizes ==
    {"1-50 employees", "Small", "STARTUP", "51-200 employees", "Mid-size",
     "201-1000 employees", "Large", "1000+ employees", "Small Enterprise",
     "Midsize Corporation", "Enterprise", "huge", ""}
    \cup {CompanySize[m] : m \in DOMAIN CompanySize}
NormalizerGoals ==
    {"Energy efficiency", "install solar panels", "Reduce Carbon emissions",
     "zero waste", "save water", "electric fleet", "LEED certification",
     "vendor audits", "wind energy", "green transport", "be nice", ""}
    \cup {GoalCategory[m] : m \in DOMAIN GoalCategory}
NormalizerGoalLists ==
    {<<>>} \cup {<<g>> : g \in NormalizerGoals}
           \cup {<<g, h>> : g \in NormalizerGoals, h \in NormalizerGoals}

---------------------------------------------------------------------------
(* The calls *)

\* A request not in progress.
IdleRequest ==
    [pc |-> "idle", business_data |-> None, below |-> FALSE,
     applicable_rules |-> <<>>, recommendations |-> <<>>, result |-> <<>>]

\* The engine serves one call at a time: a call is made when none is in
\* progress, and Return hands the result back and leaves the engine idle.
Init ==
    /\ call = "none"
    /\ args = <<>>
    /\ ret = <<>>
    /\ metrics = [prompt_id \in MetricPromptIds |-> NoList]
    /\ lists = <<>>
    /\ recorders = [t \in Recorders |->
                       [pc |-> "idle", prompt_id |-> "", metrics |-> None,
                        list |-> NoList]]
    /\ completed = [prompt_id \in MetricPromptIds |-> 0]
    /\ performance = None
    /\ rules = _initialize_rules
    /\ regional_factors = engine_regional_factors
    /\ requests = [r \in EngineRequestIds |-> IdleRequest]

\* The outcomes of the float quotient for a request: both, when a rule with
\* a fractional implementation_cost_factor is applicable; else the exact one.
QuotientOutcomes(business_data) ==
    LET applicable == applicable_rules(business_data)
    IN  IF \E i \in 1..Len(applicable) :
              applicable[i].implementation_cost_factor % 10 # 0
        THEN BOOLEAN ELSE {FALSE}

GenerateRecommendations ==
    /\ call = "none"
    /\ \E business_data \in RequestProfiles :
       \E below \in QuotientOutcomes(business_data) :
        /\ call' = "generate_recommendations"
        /\ args' = [business_data |-> business_data, quotient_below |-> below]
        /\ ret' = generate_recommendations(business_data, below)
    /\ UNCHANGED <<metricsVars, engineVars>>

IsRuleApplicable ==
    /\ call = "none"
    /\ \E r \in 1..Len(_initialize_rules),
          monthly_kwh \in MonthlyKwh \cup ThresholdKwh,
          monthly_therms \in MonthlyTherms,
          industry \in CanonicalIndustries, company_size \in CanonicalSizes,
          goals \in CanonicalGoalSets :
        LET business_data == [monthly_kwh |-> monthly_kwh,
                              monthly_therms |-> monthly_therms]
        IN  /\ call' = "_is_rule_applicable"
            /\ args' = [rule |-> _initialize_rules[r],
                        business_data |-> business_data,
                        industry |-> industry, company_size |-> company_size,
                        goals |-> goals]
            /\ ret' = _is_rule_applicable(_initialize_rules[r], business_data,
                                          industry, company_size, goals)
    /\ UNCHANGED <<metricsVars, engineVars>>

GeneratePriorityScore ==
    /\ call = "none"
    /\ \E roi_months \in RoiMonthsValues, annual_savings \in AnnualSavingsValues,
          co2_reduction_tons \in Co2TonsValues,
          implementation_difficulty \in DifficultyStrings,
          energy_usage \in EnergyUsageValues :
        /\ call' = "generate_priority_score"
        /\ args' = [roi_months |-> roi_months, annual_savings |-> annual_savings,
                    co2_reduction_tons |-> co2_reduction_tons,
                    implementation_difficulty |-> implementation_difficulty,
                    energy_usage |-> energy_usage]
        /\ ret' = generate_priority_score(roi_months, annual_savings,
                                          co2_reduction_tons,
                                          implementation_difficulty, energy_usage)
    /\ UNCHANGED <<metricsVars, engineVars>>

GetRegionalFactors ==
    /\ call = "none"
    /\ \E location \in Locations :
        /\ call' = "get_regional_factors"
        /\ args' = [location |-> location]
        /\ ret' = get_regional_factors(location)
    /\ UNCHANGED <<metricsVars, engineVars>>

CalculateIncentiveOptimization ==
    /\ call = "none"
    /\ \E category \in Categories, implementation_cost \in ImplementationCosts,
          location \in IncentiveLocations :
        /\ call' = "calculate_incentive_optimization"
        /\ args' = [category |-> category,
                    implementation_cost |-> implementation_cost,
                    location |-> location]
        /\ ret' = calculate_incentive_optimization(category, implementation_cost,
                                                   location)
    /\ UNCHANGED <<metricsVars, engineVars>>

CalculateRecommendationRoi ==
    /\ call = "none"
    /\ \E energy_savings_percent \in EnergySavingsPercents,
          implementation_cost \in RoiImplementationCosts,
          energy \in EnergyDataValues, location \in RoiLocations,
          maintenance_savings \in MaintenanceSavings :
        /\ call' = "calculate_recommendation_roi"
        /\ args' = [energy_savings_percent |-> energy_savings_percent,
                    implementation_cost |-> implementation_cost,
                    energy |-> energy, location |-> location,
                    category |-> "LED Lighting",
                    maintenance_savings |-> maintenance_savings]
        /\ ret' = calculate_recommendation_roi(energy_savings_percent,
                        implementation_cost, energy, location, "LED Lighting",
                        maintenance_savings)
    /\ UNCHANGED <<metricsVars, engineVars>>

CalculateRoi ==
    /\ call = "none"
    /\ \E annual_savings \in RoiAnnualSavings, implementation_cost \in RoiCosts :
        /\ call' = "calculate_roi"
        /\ args' = [annual_savings |-> annual_savings,
                    implementation_cost |-> implementation_cost]
        /\ ret' = calculate_roi(annual_savings, implementation_cost)
    /\ UNCHANGED <<metricsVars, engineVars>>

CalculateEnergyCosts ==
    /\ call = "none"
    /\ \E energy \in EnergyCostData, location \in UsageLocations :
        /\ call' = "calculate_energy_costs"
        /\ args' = [energy |-> energy, location |-> location]
        /\ ret' = calculate_energy_costs(energy, location)
    /\ UNCHANGED <<metricsVars, engineVars>>

CalculateCarbonFootprint ==
    /\ call = "none"
    /\ \E energy \in FootprintData, location \in UsageLocations :
        /\ call' = "calculate_carbon_footprint"
        /\ args' = [energy |-> energy, location |-> location]
        /\ ret' = calculate_carbon_footprint(energy, location)
    /\ UNCHANGED <<metricsVars, engineVars>>

SelectOptimalPrompt ==
    /\ call = "none"
    /\ \E request \in PromptRequests :
        /\ call' = "select_optimal_prompt"
        /\ args' = [request |-> request]
        /\ ret' = select_optimal_prompt(request)
    /\ UNCHANGED <<metricsVars, engineVars>>

\* raises is drawn from the places of the try block that can raise for the
\* request: the conversion loop runs only over a non-empty engine result.
GenerateRulesBasedRecommendations ==
    /\ call = "none"
    /\ \E business_data \in EndpointRequests :
       \E below \in QuotientOutcomes(business_data) :
       \E raises \in EngineFailures :
        /\ raises = "conversion" =>
               Len(generate_recommendations(business_data, below)) > 0
        /\ call' = "generate_rules_based_recommendations"
        /\ args' = [business_data |-> business_data, quotient_below |-> below,
                    raises |-> raises]
        /\ ret' = generate_rules_based_recommendations(business_data, below, raises)
    /\ UNCHANGED <<metricsVars, engineVars>>

CategorizeIndustry ==
    /\ call = "none"
    /\ \E industry_str \in NormalizerIndustries :
        /\ call' = "categorize_industry"
        /\ args' = [industry_str |-> industry_str]
        /\ ret' = categorize_industry(industry_str)
    /\ UNCHANGED <<metricsVars, engineVars>>

CategorizeCompanySize ==
    /\ call = "none"
    /\ \E size_str \in NormalizerSizes :
        /\ call' = "categorize_company_size"
        /\ args' = [size_str |-> size_str]
        /\ ret' = categorize_company_size(size_str)
    /\ UNCHANGED <<metricsVars, engineVars>>

CategorizeGoals ==
    /\ call = "none"
    /\ \E goals \in NormalizerGoalLists :
        /\ call' = "categorize_goals"
        /\ args' = [goals |-> goals]
        /\ ret' = categorize_goals(goals)
    /\ UNCHANGED <<metricsVars, engineVars>>

CalculateSolarPotential ==
    /\ call = "none"
    /\ \E facility_size \in FacilitySizes, location \in SolarLocations,
          roof_percentage \in RoofPercentages :
        /\ call' = "calculate_solar_potential"
        /\ args' = [facility_size |-> facility_size, location |-> location,
                    roof_percentage |-> roof_percentage]
        /\ ret' = calculate_solar_potential(facility_size, location, roof_percentage)
    /\ UNCHANGED <<metricsVars, engineVars>>

Return ==
    /\ call # "none"
    /\ call' = "none"
    /\ args' = <<>>
    /\ ret' = <<>>
    /\ UNCHANGED <<metricsVars, engineVars>>

Next ==
    \/ GenerateRecommendations
    \/ IsRuleApplicable
    \/ GeneratePriorityScore
    \/ GetRegionalFactors
    \/ CalculateIncentiveOptimization
    \/ CalculateRecommendationRoi
    \/ CalculateRoi
    \/ CalculateEnergyCosts
    \/ CalculateCarbonFootprint
    \/ SelectOptimalPrompt
    \/ GenerateRulesBasedRecommendations
    \/ CategorizeIndustry
    \/ CategorizeCompanySize
    \/ CategorizeGoals
    \/ CalculateSolarPotential
    \/ Return

Spec == Init /\ [][Next]_vars

---------------------------------------------------------------------------
(* record_metrics under threads *)

\* Threads of one process call record_metrics on the one service object.
\* A thread may be switched between any two of its subscript operations:
\* the membership test (line 673), the store of the new list (674), the
\* load of the stored list and the append to it (675).  list.append and
\* each dict operation are atomic.

StepTo(t, pc) == [recorders EXCEPT ![t].pc = pc]

RECURSIVE SumCompleted(_)
SumCompleted(prompt_ids) ==
    IF prompt_ids = {} THEN 0
    ELSE LET prompt_id == CHOOSE x \in prompt_ids : TRUE
         IN  completed[prompt_id] + SumCompleted(prompt_ids \ {prompt_id})

\* The record_metrics calls made so far, returned or in progress.
CallsMade ==
    SumCompleted(MetricPromptIds)
        + Cardinality({t \in Recorders : recorders[t].pc # "idle"})

RecordMetrics(t) ==
    /\ recorders[t].pc = "idle"
    /\ CallsMade < MaxRecordCalls
    /\ \E prompt_id \in MetricPromptIds, m \in PromptMetricsValues :
        recorders' = [recorders EXCEPT ![t] =
                         [pc |-> "test", prompt_id |-> prompt_id,
                          metrics |-> Some(m), list |-> NoList]]
    /\ UNCHANGED <<metrics, lists, completed, performance, callVars, engineVars>>

\* if prompt_id not in self.metrics:
RecordMetricsTest(t) ==
    /\ recorders[t].pc = "test"
    /\ recorders' =
          StepTo(t, IF metrics[recorders[t].prompt_id] = NoList
                    THEN "store" ELSE "load")
    /\ UNCHANGED <<metrics, lists, completed, performance, callVars, engineVars>>

\* self.metrics[prompt_id] = []
RecordMetricsStore(t) ==
    /\ recorders[t].pc = "store"
    /\ lists' = Append(lists, <<>>)
    /\ metrics' = [metrics EXCEPT ![recorders[t].prompt_id] = Len(lists) + 1]
    /\ recorders' = StepTo(t, "load")
    /\ UNCHANGED <<completed, performance, callVars, engineVars>>

\* self.metrics[prompt_id]
RecordMetricsLoad(t) ==
    /\ recorders[t].pc = "load"
    /\ recorders' = [recorders EXCEPT ![t].pc = "append",
                                      ![t].list = metrics[recorders[t].prompt_id]]
    /\ UNCHANGED <<metrics, lists, completed, performance, callVars, engineVars>>

\* .append(metrics), and the return
RecordMetricsAppend(t) ==
    /\ recorders[t].pc = "append"
    /\ lists' = [lists EXCEPT ![recorders[t].list] =
                    Append(@, Val(recorders[t].metrics))]
    /\ completed' = [completed EXCEPT ![recorders[t].prompt_id] = @ + 1]
    /\ recorders' = [recorders EXCEPT ![t] =
                         [pc |-> "idle", prompt_id |-> "", metrics |-> None,
                          list |-> NoList]]
    /\ UNCHANGED <<metrics, performance, callVars, engineVars>>

GetTemplatePerformance ==
    /\ \E template_id \in MetricPromptIds :
        performance' =
            Some([template_id |-> template_id,
                  result |-> get_template_performance(metrics, lists, template_id)])
    /\ UNCHANGED <<metrics, lists, recorders, completed, callVars, engineVars>>

NextMetrics ==
    \/ \E t \in Recorders : RecordMetrics(t)
    \/ \E t \in Recorders : RecordMetricsTest(t)
    \/ \E t \in Recorders : RecordMetricsStore(t)
    \/ \E t \in Recorders : RecordMetricsLoad(t)
    \/ \E t \in Recorders : RecordMetricsAppend(t)
    \/ GetTemplatePerformance

SpecMetrics == Init /\ [][NextMetrics]_vars

---------------------------------------------------------------------------
(* generate_recommendations under concurrent requests *)

\* Requests run generate_recommendations on the one engine object, each
\* with its own locals, and may be switched between any two of its
\* statements.

\* The loop of lines 436-438 emptying self.rules of the rules it rejects.
FilterRulesInPlace(r) ==
    LET business_data == Val(requests[r].business_data)
        kept == FilterApplicable(
                    rules, business_data,
                    categorize_industry(business_data.industry),
                    categorize_company_size(business_data.size),
                    categorize_goals(business_data.sustainability_goals))
    IN  /\ requests[r].pc = "filter"
        /\ rules' = kept
        /\ requests' = [requests EXCEPT ![r].pc = "create",
                                        ![r].applicable_rules = kept]
        /\ UNCHANGED <<regional_factors, callVars, metricsVars>>

BeginRequest(r) ==
    /\ requests[r].pc = "idle"
    /\ \E business_data \in EngineProfiles :
       \E below \in QuotientOutcomes(business_data) :
        requests' = [requests EXCEPT ![r] =
                        [IdleRequest EXCEPT !.pc = "filter",
                                            !.business_data = Some(business_data),
                                            !.below = below]]
    /\ UNCHANGED <<rules, regional_factors, callVars, metricsVars>>

\* Lines 428-438: the normalised fields and the rules of self.rules that
\* apply, appended to the local applicable_rules.
FilterRules(r) ==
    LET business_data == Val(requests[r].business_data)
    IN  /\ requests[r].pc = "filter"
        /\ requests' =
              [requests EXCEPT
                  ![r].pc = "create",
                  ![r].applicable_rules =
                      FilterApplicable(
                          rules, business_data,
                          categorize_industry(business_data.industry),
                          categorize_company_size(business_data.size),
                          categorize_goals(business_data.sustainability_goals))]
        /\ UNCHANGED <<rules, regional_factors, callVars, metricsVars>>

\* Lines 441-444: one recommendation per applicable rule, into the local
\* recommendations.
CreateRecommendations(r) ==
    LET applicable == requests[r].applicable_rules
    IN  /\ requests[r].pc = "create"
        /\ requests' =
              [requests EXCEPT
                  ![r].pc = "sort",
                  ![r].recommendations =
                      [i \in 1..Len(applicable) |->
                          create_recommendation(
                              regional_factors, applicable[i],
                              Val(requests[r].business_data), requests[r].below)]]
        /\ UNCHANGED <<rules, regional_factors, callVars, metricsVars>>

\* Line 447: recommendations.sort(...), in place on the local list.
SortRecommendations(r) ==
    /\ requests[r].pc = "sort"
    /\ requests' =
          [requests EXCEPT
              ![r].pc = "return",
              ![r].recommendations =
                  SortByPriorityDescending(requests[r].recommendations)]
    /\ UNCHANGED <<rules, regional_factors, callVars, metricsVars>>

\* Line 448: return recommendations[:8]
ReturnTopEight(r) ==
    LET sorted == requests[r].recommendations
    IN  /\ requests[r].pc = "return"
        /\ requests' = [requests EXCEPT
                           ![r].pc = "done",
                           ![r].result = SubSeq(sorted, 1, Min2(8, Len(sorted)))]
        /\ UNCHANGED <<rules, regional_factors, callVars, metricsVars>>

\* The caller takes the result; the locals are gone.
EndRequest(r) ==
    /\ requests[r].pc = "done"
    /\ requests' = [requests EXCEPT ![r] = IdleRequest]
    /\ UNCHANGED <<rules, regional_factors, callVars, metricsVars>>

NextEngine ==
    \/ \E r \in EngineRequestIds : BeginRequest(r)
    \/ \E r \in EngineRequestIds : FilterRules(r)
    \/ \E r \in EngineRequestIds : CreateRecommendations(r)
    \/ \E r \in EngineRequestIds : SortRecommendations(r)
    \/ \E r \in EngineRequestIds : ReturnTopEight(r)
    \/ \E r \in EngineRequestIds : EndRequest(r)

SpecEngine == Init /\ [][NextEngine]_vars

---------------------------------------------------------------------------
(* Properties *)

\* The position of a result in the list of all matched-rule results, which
\* is in catalog order.
PositionIn(all, rec) == CHOOSE k \in 1..Len(all) : all[k] = rec

\* a ranks before b: a higher priority_score, or an equal one and an earlier
\* place in the catalog.
RanksBefore(all, a, b) ==
    \/ a.priority_score > b.priority_score
    \/ /\ a.priority_score = b.priority_score
       /\ PositionIn(all, a) < PositionIn(all, b)

\* C1: generate_recommendations returns at most 8 results, and they are the
\* first 8 (or fewer) of all matched-rule results in descending order of
\* priority_score, equal scores staying in catalog order.
C1_TopEightStableDescending ==
    call = "generate_recommendations" =>
        LET all == recommendations_unsorted(args.business_data, args.quotient_below)
        IN  /\ Len(ret) <= 8
            /\ Len(ret) = Min2(8, Len(all))
            /\ \A i \in 1..Len(ret) : \E k \in 1..Len(all) : all[k] = ret[i]
            /\ \A i, j \in 1..Len(ret) : i < j => RanksBefore(all, ret[i], ret[j])
            /\ \A k \in 1..Len(all) :
                  (\A i \in 1..Len(ret) : ret[i] # all[k])
                      => \A i \in 1..Len(ret) : RanksBefore(all, ret[i], all[k])

\* C1 witness: more than 8 rules match, so the list is cut, and two results
\* with equal scores are returned and one with that score is cut off.
C1_Witness ==
    /\ call = "generate_recommendations"
    /\ Len(recommendations_unsorted(args.business_data, args.quotient_below)) > 8
    /\ \E i, j \in 1..Len(ret) :
          i < j /\ ret[i].priority_score = ret[j].priority_score
    /\ \E k \in 1..Len(recommendations_unsorted(args.business_data,
                                                args.quotient_below)) :
          LET rec == recommendations_unsorted(args.business_data,
                                              args.quotient_below)[k]
          IN  /\ \A i \in 1..Len(ret) : ret[i] # rec
              /\ rec.priority_score = ret[Len(ret)].priority_score

\* The ids of the catalog rules that _is_rule_applicable accepts for a request.
ApplicableIds(business_data) ==
    {_initialize_rules[r].rule_id : r \in
        {q \in 1..Len(_initialize_rules) :
            _is_rule_applicable(_initialize_rules[q], business_data,
                categorize_industry(business_data.industry),
                categorize_company_size(business_data.size),
                categorize_goals(business_data.sustainability_goals))}}

\* C2: every returned id is the id of an applicable rule, no id is returned
\* twice, and when at most 8 rules are applicable each of them is returned.
C2_OneResultPerApplicableRule ==
    call = "generate_recommendations" =>
        LET ids == ApplicableIds(args.business_data)
        IN  /\ \A i \in 1..Len(ret) : ret[i].id \in ids
            /\ \A i, j \in 1..Len(ret) : i # j => ret[i].id # ret[j].id
            /\ Cardinality(ids) <= 8 =>
                  \A id \in ids : \E i \in 1..Len(ret) : ret[i].id = id

\* C2 witness: a request with several applicable rules, at most 8, all returned.
C2_Witness ==
    /\ call = "generate_recommendations"
    /\ Cardinality(ApplicableIds(args.business_data)) \in 3..8
    /\ Len(ret) = Cardinality(ApplicableIds(args.business_data))

\* C3: _is_rule_applicable is true exactly when every declared constraint
\* holds: kWh and therms within the declared bounds, the industry and the
\* size in the declared lists, at least one required goal among the goals;
\* an undeclared (None) constraint restricts nothing.
C3_ApplicableIffAllDeclaredConstraintsHold ==
    call = "_is_rule_applicable" =>
        LET rule == args.rule
            kwh == args.business_data.monthly_kwh
            therms == args.business_data.monthly_therms
        IN  ret = ( /\ rule.min_kwh # None => kwh >= Val(rule.min_kwh)
                    /\ rule.max_kwh # None => kwh <= Val(rule.max_kwh)
                    /\ rule.min_therms # None => therms >= Val(rule.min_therms)
                    /\ rule.max_therms # None => therms <= Val(rule.max_therms)
                    /\ rule.applicable_industries # None =>
                          InList(args.industry, Val(rule.applicable_industries))
                    /\ rule.applicable_sizes # None =>
                          InList(args.company_size, Val(rule.applicable_sizes))
                    /\ rule.required_goals # None =>
                          \E g \in args.goals : InList(g, Val(rule.required_goals)) )

\* C3 witness: a rule with a usage, a size and a goal constraint, all met.
C3_Witness ==
    /\ call = "_is_rule_applicable"
    /\ args.rule.rule_id = "green_transportation"
    /\ args.company_size = "LARGE"
    /\ args.goals = {"TRANSPORTATION", "WASTE_REDUCTION"}
    /\ ret = TRUE

\* C4: generate_priority_score returns a value in [0.1, 1.0] for every
\* input, and so is every priority_score of generate_recommendations.
C4_PriorityScoreWithinBounds ==
    /\ call = "generate_priority_score" => ret >= 10 /\ ret <= 100
    /\ call = "generate_recommendations" =>
          \A i \in 1..Len(ret) :
              ret[i].priority_score >= 10 /\ ret[i].priority_score <= 100

\* C4 witness: the calculator scores an infinite payback with an unknown
\* difficulty string and very large savings.
C4_WitnessCalculator ==
    /\ call = "generate_priority_score"
    /\ args.roi_months = Inf
    /\ args.implementation_difficulty = "Impossible"
    /\ args.annual_savings = 100000

\* The region keys other than "default" that the lowercased location contains.
RegionKeysIn(location) ==
    {_initialize_regional_factors[i].region : i \in
        {j \in 1..Len(_initialize_regional_factors) :
            /\ _initialize_regional_factors[j].region # "default"
            /\ Contains(Lower(location), _initialize_regional_factors[j].region)}}

\* C5: get_regional_factors returns the factors of a region key contained in
\* the lowercased location, whatever the case of the location, and the
\* "default" factors when no key is contained; "CALIFORNIA", "california"
\* and "Los Angeles, California" all get the California factors.
C5_CaseInsensitiveSubstringLookup ==
    call = "get_regional_factors" =>
        /\ RegionKeysIn(args.location) # {} =>
              \E key \in RegionKeysIn(args.location) : ret = RegionalFactorsOf(key)
        /\ RegionKeysIn(args.location) = {} => ret = RegionalFactorsOf("default")
        /\ args.location \in {"CALIFORNIA", "california", "Los Angeles, California"}
              => ret = RegionalFactorsOf("california")

\* C5 witness: an upper-case location resolved to the California factors.
C5_Witness ==
    /\ call = "get_regional_factors"
    /\ args.location = "CALIFORNIA"
    /\ ret = RegionalFactorsOf("california")
    /\ ret # RegionalFactorsOf("default")

\* C6, as the claim states it: calculate_incentive_optimization never returns
\* a negative post_incentive_cost for a cost >= 0, and an applicable
\* incentive with a declared max_value adds at most max_value to the total.
C6_PostIncentiveCostNeverNegative ==
    call = "calculate_incentive_optimization" =>
        LET applicable == SelectApplicable(incentive_bucket(args.location),
                                           args.category)
        IN  /\ ret.post_incentive_cost >= 0
            /\ \A i \in 1..Len(applicable) :
                  applicable[i].max_value # None =>
                      incentive_contribution(applicable[i], args.implementation_cost)
                          <= Val(applicable[i].max_value)

\* The keys of the incentive database other than "default" that the
\* lowercased location contains.
IncentiveKeysIn(location) ==
    {IncentiveRegions[i] : i \in
        {j \in 1..Len(IncentiveRegions) :
            /\ IncentiveRegions[j] # "default"
            /\ Contains(Lower(location), IncentiveRegions[j])}}

\* The names of the incentives of a bucket that are applicable to a category.
ApplicableNames(key, category) ==
    LET applicable == SelectApplicable(incentive_database(key), category)
    IN  [i \in 1..Len(applicable) |-> applicable[i].name]

\* C7, as the claim states it: the incentives come from the bucket of a
\* region key contained in the lowercased location, and from the "default"
\* bucket only when the location contains no such key.
C7_BucketBySubstringLookup ==
    call = "calculate_incentive_optimization" =>
        IF IncentiveKeysIn(args.location) # {}
        THEN \E key \in IncentiveKeysIn(args.location) :
                 ret.applicable_incentives = ApplicableNames(key, args.category)
        ELSE ret.applicable_incentives = ApplicableNames("default", args.category)

\* An eligibility tag contains the lowercased category or is contained in it.
EligibleFor(incentive, category) ==
    \E i \in 1..Len(incentive.eligibility) :
        \/ Contains(incentive.eligibility[i], Lower(category))
        \/ Contains(Lower(category), incentive.eligibility[i])

\* The sum, in cents, over the eligible incentives of a bucket: a percentage
\* incentive adds min(cost * percentage / 100, max_value if declared), a
\* flat one its fixed value.
RECURSIVE EligibleTotal(_, _, _)
EligibleTotal(incentives, category, cost) ==
    IF incentives = <<>> THEN 0
    ELSE LET incentive == Head(incentives)
             amount == IF incentive.percentage = None THEN incentive.value
                       ELSE IF incentive.max_value = None
                            THEN cost * Val(incentive.percentage)
                            ELSE Min2(cost * Val(incentive.percentage),
                                      Val(incentive.max_value))
         IN  (IF EligibleFor(incentive, category) THEN amount ELSE 0)
             + EligibleTotal(Tail(incentives), category, cost)

\* C8, amended: total_incentive_value is the sum over the eligible
\* incentives of the bucket, post_incentive_cost is cost - total, and
\* optimized_payback_reduction is total / cost * 100 rounded to one decimal
\* (half to even), 0 when cost is 0; with no eligible incentive the total is
\* 0 and post_incentive_cost is the cost.
C8_IncentiveTotals ==
    call = "calculate_incentive_optimization" =>
        LET bucket == incentive_bucket(args.location)
            cost == args.implementation_cost
            total == EligibleTotal(bucket, args.category, cost)
            eligible == {i \in 1..Len(bucket) : EligibleFor(bucket[i], args.category)}
        IN  /\ Len(ret.applicable_incentives) = Cardinality(eligible)
            /\ \A i \in eligible :
                  \E k \in 1..Len(ret.applicable_incentives) :
                      ret.applicable_incentives[k] = bucket[i].name
            /\ ret.total_incentive_value = total
            /\ ret.post_incentive_cost = cost * 100 - total
            /\ cost = 0 => ret.optimized_payback_reduction = 0
            /\ cost > 0 =>
                  \* |payback * cost - total * 10| <= cost / 2
                  /\ 2 * Abs(ret.optimized_payback_reduction * cost - total * 10)
                         <= cost
                  /\ 2 * Abs(ret.optimized_payback_reduction * cost - total * 10)
                         = cost => ret.optimized_payback_reduction % 2 = 0
            /\ eligible = {} =>
                  /\ ret.total_incentive_value = 0
                  /\ ret.post_incentive_cost = cost * 100

\* C8 witness: a category contained in an eligibility tag ("light" in
\* "lighting"), a flat and a percentage incentive added up, and a payback
\* reduction that is not a whole number of tenths before rounding.
C8_Witness ==
    /\ call = "calculate_incentive_optimization"
    /\ args.category = "light"
    /\ args.implementation_cost = 3
    /\ Len(ret.applicable_incentives) = 2
    /\ ret.total_incentive_value = 263
    /\ ret.optimized_payback_reduction = 877

\* C8, as the claim states it: optimized_payback_reduction is exactly
\* total / cost * 100.
C8_PaybackReductionExact ==
    (call = "calculate_incentive_optimization" /\ args.implementation_cost > 0)
        => ret.optimized_payback_reduction * args.implementation_cost
               = ret.total_incentive_value * 10

\* (monthly_kwh + monthly_therms * 3.412) > 0, the usage that
\* calculate_energy_costs divides by.
PositiveUsage(energy) == energy.monthly_kwh * 1000 + energy.monthly_therms * 3412 > 0

\* total_annual_savings of calculate_recommendation_roi, x4 dollars.
TotalAnnualSavings(a) ==
    calculate_energy_costs(a.energy, a.location).total_annual_cost
        * a.energy_savings_percent + a.maintenance_savings * 10000

\* C9: calculate_roi(0, cost) with cost > 0 is infinite; for a positive
\* energy usage calculate_recommendation_roi does not raise, its roi_months
\* is infinite when the total annual savings are <= 0, and its
\* internal_rate_of_return is 0 when implementation_cost is 0.
C9_ZeroSavingsInfinitePayback ==
    /\ (call = "calculate_roi" /\ args.annual_savings = 0
            /\ args.implementation_cost > 0) => ret.inf
    /\ (call = "calculate_recommendation_roi" /\ PositiveUsage(args.energy)) =>
        /\ ~IsRaised(ret)
        /\ TotalAnnualSavings(args) <= 0 => ret.roi_months = Inf
        /\ args.implementation_cost = 0 => ret.internal_rate_of_return = 0

\* C9 witness: a positive usage, a positive cost and savings that the
\* maintenance cost turns negative.
C9_Witness ==
    /\ call = "calculate_recommendation_roi"
    /\ PositiveUsage(args.energy)
    /\ args.implementation_cost > 0
    /\ args.energy_savings_percent > 0
    /\ TotalAnnualSavings(args) < 0
    /\ ret.roi_months = Inf

\* C10, as the claim states it: with negative annual savings and a positive
\* cost calculate_roi returns implementation_cost / annual_savings * 12, a
\* negative number of months.
C10_NegativeSavingsNegativePayback ==
    (call = "calculate_roi" /\ args.annual_savings < 0
         /\ args.implementation_cost > 0)
        => /\ ret = Quotient(args.implementation_cost * 12, args.annual_savings)
           /\ ret.num < 0

\* C11: with monthly_kwh = 0 and monthly_therms = 0, every figure of
\* calculate_carbon_footprint is 0, and every result of
\* generate_recommendations has estimated_cost_savings = 0 and
\* estimated_co2_reduction = 0.
C11_ZeroUsageZeroMetrics ==
    /\ (call = "calculate_carbon_footprint" /\ args.energy.monthly_kwh = 0
            /\ args.energy.monthly_therms = 0) =>
          /\ ret.annual_co2_tons = 0
          /\ ret.monthly_co2_tons = 0
          /\ ret.electricity_co2 = 0
          /\ ret.gas_co2 = 0
          /\ ret.total_co2_lbs = 0
    /\ (call = "generate_recommendations" /\ args.business_data.monthly_kwh = 0
            /\ args.business_data.monthly_therms = 0) =>
          \A i \in 1..Len(ret) :
              /\ ret[i].estimated_cost_savings = 0
              /\ ret[i].estimated_co2_reduction = 0

\* C11 witness: a zero-usage footprint in a region with its own emission
\* factors.
C11_Witness ==
    /\ call = "calculate_carbon_footprint"
    /\ args.energy.monthly_kwh = 0
    /\ args.energy.monthly_therms = 0
    /\ args.location = "California"
    /\ ret.total_co2_lbs = 0

\* A zero-usage request for which the rules engine returns results.
C11_WitnessEngine ==
    /\ call = "generate_recommendations"
    /\ args.business_data.monthly_kwh = 0
    /\ args.business_data.monthly_therms = 0
    /\ Len(ret) >= 2

\* C12, as the claim states it: with monthly_kwh = 0, monthly_therms = 0 and
\* no demand charges calculate_energy_costs returns, with total_annual_cost,
\* annual_electricity_cost and annual_gas_cost all 0, and
\* calculate_recommendation_roi on zero usage returns too.
C12_ZeroUsageCostsDefined ==
    /\ (call = "calculate_energy_costs" /\ args.energy.monthly_kwh = 0
            /\ args.energy.monthly_therms = 0
            /\ args.energy.demand_charges = None) =>
          /\ ~IsRaised(ret)
          /\ ret.total_annual_cost = 0
          /\ ret.annual_electricity_cost = 0
          /\ ret.annual_gas_cost = 0
    /\ (call = "calculate_recommendation_roi" /\ args.energy.monthly_kwh = 0
            /\ args.energy.monthly_therms = 0) => ~IsRaised(ret)

\* The usage of e is not negative, and e2 is e with one of monthly_kwh and
\* monthly_therms raised and nothing else changed.
RaisedUsage(e, e2) ==
    /\ e.monthly_kwh >= 0 /\ e.monthly_therms >= 0
    /\ \/ \E k \in UsageKwh :
             k >= e.monthly_kwh /\ e2 = [e EXCEPT !.monthly_kwh = k]
       \/ \E t \in UsageTherms :
             t >= e.monthly_therms /\ e2 = [e EXCEPT !.monthly_therms = t]

\* C13, as the claim states it: for a fixed location and usage that is not
\* negative, annual_co2_tons and total_annual_cost exist and do not decrease
\* when monthly_kwh or monthly_therms is raised alone.
C13_MonotoneInUsage ==
    /\ call = "calculate_carbon_footprint" =>
          \A e2 \in FootprintData :
              RaisedUsage(args.energy, e2) =>
                  calculate_carbon_footprint(e2, args.location).annual_co2_tons
                      >= ret.annual_co2_tons
    /\ call = "calculate_energy_costs" =>
          \A e2 \in EnergyCostData :
              RaisedUsage(args.energy, e2) =>
                  /\ ~IsRaised(ret)
                  /\ ~IsRaised(calculate_energy_costs(e2, args.location))
                  /\ calculate_energy_costs(e2, args.location).total_annual_cost
                        >= ret.total_annual_cost

\* The part of C13 that holds: the same, between any two calls of
\* calculate_energy_costs that return.
C13_MonotoneWhereDefined ==
    /\ call = "calculate_carbon_footprint" =>
          \A e2 \in FootprintData :
              RaisedUsage(args.energy, e2) =>
                  calculate_carbon_footprint(e2, args.location).annual_co2_tons
                      >= ret.annual_co2_tons
    /\ call = "calculate_energy_costs" =>
          \A e2 \in EnergyCostData :
              (/\ RaisedUsage(args.energy, e2)
               /\ ~IsRaised(ret)
               /\ ~IsRaised(calculate_energy_costs(e2, args.location))) =>
                  calculate_energy_costs(e2, args.location).total_annual_cost
                      >= ret.total_annual_cost

\* Usage raised from 2 kWh on, with costs that differ.
C13_Witness ==
    /\ call = "calculate_energy_costs"
    /\ args.energy.monthly_kwh = 2
    /\ args.energy.monthly_therms = 0
    /\ ~IsRaised(ret)
    /\ calculate_energy_costs([args.energy EXCEPT !.monthly_kwh = 500],
                              args.location).total_annual_cost
           > ret.total_annual_cost

\* The lowercased text has one of the keywords as a substring.
HasKeyword(text, keywords) == \E k \in keywords : Contains(Lower(text), k)

\* C14: select_optimal_prompt returns one template, by the priority goal >
\* industry > size > core and the first match inside a tier: carbon_neutral_v1
\* for 'carbon neutral' or 'net zero' in the goals text whatever the industry
\* and size, else cost_optimization_v1 for 'cost', 'savings' or 'budget',
\* else the first industry template in the order technology, manufacturing,
\* retail, healthcare, else small_business_v1 or enterprise_v1 by size (small
\* first), else sustainability_core_v2.
C14_TemplateByStrictPriority ==
    call = "select_optimal_prompt" =>
        LET goals_text == JoinWithSpace(args.request.sustainability_goals)
            industry == args.request.industry
            size == args.request.company_size
            carbon == HasKeyword(goals_text, {"carbon neutral", "net zero"})
            cost == HasKeyword(goals_text, {"cost", "savings", "budget"})
            tech == HasKeyword(industry, {"tech", "software"})
            mfg == HasKeyword(industry, {"manufacturing", "industrial"})
            retail == HasKeyword(industry, {"retail", "store"})
            health == HasKeyword(industry, {"health", "medical"})
            small == HasKeyword(size, {"1-50", "small"})
            large == HasKeyword(size, {"1000+", "enterprise"})
            goal == carbon \/ cost
            ind == tech \/ mfg \/ retail \/ health
        IN  /\ InList(ret, _initialize_templates)
            /\ carbon => ret = "carbon_neutral_v1"
            /\ (~carbon /\ cost) => ret = "cost_optimization_v1"
            /\ (~goal /\ tech) => ret = "technology_focused_v1"
            /\ (~goal /\ ~tech /\ mfg) => ret = "manufacturing_focused_v1"
            /\ (~goal /\ ~tech /\ ~mfg /\ retail) => ret = "retail_focused_v1"
            /\ (~goal /\ ~tech /\ ~mfg /\ ~retail /\ health)
                  => ret = "healthcare_focused_v1"
            /\ (~goal /\ ~ind /\ small) => ret = "small_business_v1"
            /\ (~goal /\ ~ind /\ ~small /\ large) => ret = "enterprise_v1"
            /\ (~goal /\ ~ind /\ ~small /\ ~large)
                  => ret = "sustainability_core_v2"

\* C14 witness: a carbon-neutral goal overrides a technology industry and a
\* small size.
C14_Witness ==
    /\ call = "select_optimal_prompt"
    /\ args.request.industry = "Technology"
    /\ args.request.company_size = "1-50 employees"
    /\ args.request.sustainability_goals = <<"Become Carbon Neutral">>
    /\ ret = "carbon_neutral_v1"

\* C15, as the claim states it: a custom electricity_cost that is supplied
\* (is not None) alone gives the electricity cost, and a custom gas_cost the
\* gas cost; a supplied rate of 0 gives a cost of 0.
C15_CustomRateOverridesRegional ==
    (call = "calculate_energy_costs" /\ ~IsRaised(ret)) =>
        LET energy == args.energy
        IN  /\ energy.electricity_cost # None =>
                  /\ ret.monthly_electricity_cost =
                        RoundHalfEven(energy.monthly_kwh
                                          * Val(energy.electricity_cost), 100)
                  /\ ret.annual_electricity_cost =
                        RoundHalfEven(energy.monthly_kwh
                                          * Val(energy.electricity_cost) * 12, 100)
            /\ energy.gas_cost # None =>
                  /\ ret.monthly_gas_cost =
                        energy.monthly_therms * Val(energy.gas_cost)
                  /\ ret.annual_gas_cost =
                        energy.monthly_therms * Val(energy.gas_cost) * 12

\* The part of C15 that holds: the same for a supplied rate other than 0.
C15_NonZeroCustomRateOverrides ==
    (call = "calculate_energy_costs" /\ ~IsRaised(ret)) =>
        LET energy == args.energy
        IN  /\ (energy.electricity_cost # None /\ Val(energy.electricity_cost) # 0) =>
                  /\ ret.monthly_electricity_cost =
                        RoundHalfEven(energy.monthly_kwh
                                          * Val(energy.electricity_cost), 100)
                  /\ ret.annual_electricity_cost =
                        RoundHalfEven(energy.monthly_kwh
                                          * Val(energy.electricity_cost) * 12, 100)
            /\ (energy.gas_cost # None /\ Val(energy.gas_cost) # 0) =>
                  /\ ret.monthly_gas_cost =
                        energy.monthly_therms * Val(energy.gas_cost)
                  /\ ret.annual_gas_cost =
                        energy.monthly_therms * Val(energy.gas_cost) * 12

\* A custom electricity rate of 0 with the regional rate charged all the same.
C15_ZeroRateFallsBack ==
    /\ call = "calculate_energy_costs"
    /\ args.energy.electricity_cost = Some(0)
    /\ args.energy.monthly_kwh = 200
    /\ args.location = "California"
    /\ ret.annual_electricity_cost = 53880

\* C16, as the claim states it: with monthly_kwh < 0 or monthly_therms < 0,
\* calculate_energy_costs and calculate_carbon_footprint raise, and
\* generate_recommendations returns no result with negative savings or
\* negative CO2 reduction.
C16_NegativeUsageFailsFast ==
    /\ (call \in {"calculate_energy_costs", "calculate_carbon_footprint"}
            /\ (args.energy.monthly_kwh < 0 \/ args.energy.monthly_therms < 0))
          => IsRaised(ret)
    /\ (call = "generate_recommendations"
            /\ (args.business_data.monthly_kwh < 0
                    \/ args.business_data.monthly_therms < 0))
          => \A i \in 1..Len(ret) :
                 /\ ret[i].estimated_cost_savings >= 0
                 /\ ret[i].estimated_co2_reduction >= 0

\* A request with negative usage answered with negative savings.
C16_NegativeSavingsReturned ==
    /\ call = "generate_recommendations"
    /\ args.business_data.monthly_kwh < 0
    /\ args.business_data.monthly_therms < 0
    /\ \E i \in 1..Len(ret) : ret[i].estimated_cost_savings < 0

Ids(recommendations) ==
    {recommendations[i].id : i \in 1..Len(recommendations)}

\* C17: generate_rules_based_recommendations returns a list whatever the
\* try block does. When the engine or the conversion raises, the list holds
\* 'energy-audit-fallback' and holds 'led-retrofit-fallback' exactly when
\* monthly_kwh > 800, and nothing else; when nothing raises it is the
\* engine's list, one Recommendation per engine result in the engine's
\* order, and holds no fallback recommendation.
C17_FallbackOnEngineFailure ==
    call = "generate_rules_based_recommendations" =>
        LET business_data == args.business_data
            engine == generate_recommendations(business_data, args.quotient_below)
        IN  /\ args.raises # "nothing" =>
                  /\ "energy-audit-fallback" \in Ids(ret)
                  /\ "led-retrofit-fallback" \in Ids(ret)
                         <=> business_data.monthly_kwh > 800
                  /\ Ids(ret) \subseteq
                         {"energy-audit-fallback", "led-retrofit-fallback"}
                  /\ Len(ret) = Cardinality(Ids(ret))
            /\ args.raises = "nothing" =>
                  /\ Len(ret) = Len(engine)
                  /\ \A i \in 1..Len(ret) :
                         /\ ret[i].id = engine[i].id
                         /\ ret[i].estimated_cost_savings
                                = 10 * engine[i].estimated_cost_savings
                         /\ ret[i].priority_score = engine[i].priority_score
                  /\ Ids(ret) \cap
                         {"energy-audit-fallback", "led-retrofit-fallback"} = {}

\* The engine raises for a request of exactly 800 kWh: the audit alone.
C17_Witness ==
    /\ call = "generate_rules_based_recommendations"
    /\ args.raises = "engine"
    /\ args.business_data.monthly_kwh = 800
    /\ Ids(ret) = {"energy-audit-fallback"}

\* The conversion raises above 800 kWh: both fallback recommendations.
C17_WitnessConversion ==
    /\ call = "generate_rules_based_recommendations"
    /\ args.raises = "conversion"
    /\ args.business_data.monthly_kwh = 801
    /\ Ids(ret) = {"energy-audit-fallback", "led-retrofit-fallback"}

\* C18, as the claim states it: whenever no record_metrics call is in
\* progress, get_template_performance(prompt_id)['usage_count'] is the number
\* of record_metrics calls that returned for prompt_id.
C18_NoRecordedEntryLost ==
    (\A t \in Recorders : recorders[t].pc = "idle") =>
        \A prompt_id \in MetricPromptIds :
            get_template_performance(metrics, lists, prompt_id).usage_count
                = completed[prompt_id]

\* Two first-time calls for one prompt_id have both returned and
\* get_template_performance reports a usage_count of 1.
C18_EntryLost ==
    /\ \A t \in Recorders : recorders[t].pc = "idle"
    /\ \E prompt_id \in MetricPromptIds :
        /\ completed[prompt_id] = 2
        /\ performance # None
        /\ Val(performance).template_id = prompt_id
        /\ Val(performance).result.usage_count = 1

\* C19: whatever requests have run or are running, self.rules and
\* self.regional_factors are what __init__ built, entry for entry and in
\* order, and the result of a request is what generate_recommendations
\* gives for its own profile alone.
C19_CatalogNeverMutated ==
    /\ rules = _initialize_rules
    /\ regional_factors = engine_regional_factors
    /\ \A r \in EngineRequestIds :
           requests[r].pc = "done" =>
               requests[r].result =
                   generate_recommendations(Val(requests[r].business_data),
                                            requests[r].below)

\* One request has its result while another, for a different profile, is
\* between its filter and its sort.
C19_Witness ==
    \E r, q \in EngineRequestIds :
        /\ requests[r].pc = "done"
        /\ Len(requests[r].result) > 0
        /\ requests[q].pc \in {"create", "sort"}
        /\ requests[q].business_data # requests[r].business_data
        /\ rules = _initialize_rules

\* keyword occurs in text at some position, letters compared without case.
OccursIgnoringCase(keyword, text) ==
    \E p \in 0..(Len(text) - Len(keyword)) :
        \A j \in 1..Len(keyword) :
            LowerChar(SubSeq(text, p + j, p + j)) = SubSeq(keyword, j, j)

\* The keyword lists in their declared order, with their categories.
IndustryKeywordLists ==
    << <<"TECHNOLOGY", {"tech", "software", "it", "computer"}>>,
       <<"MANUFACTURING", {"manufacturing", "factory", "production"}>>,
       <<"RETAIL", {"retail", "store", "shopping"}>>,
       <<"HEALTHCARE", {"health", "medical", "hospital"}>>,
       <<"HOSPITALITY", {"hotel", "restaurant", "hospitality"}>>,
       <<"EDUCATION", {"education", "school", "university"}>>,
       <<"FINANCIAL", {"financial", "bank", "finance"}>>,
       <<"LOGISTICS", {"logistics", "transport", "shipping"}>>,
       <<"CONSTRUCTION", {"construction", "building"}>>,
       <<"AGRICULTURE", {"agriculture", "farming"}>> >>
SizeKeywordLists ==
    << <<"SMALL", {"small", "1-50", "startup"}>>,
       <<"MEDIUM", {"medium", "51-200", "mid"}>>,
       <<"LARGE", {"large", "201-1000"}>>,
       <<"ENTERPRISE", {"enterprise", "1000+", "corporation"}>> >>
GoalKeywordLists ==
    << <<"ENERGY_EFFICIENCY", {"energy", "efficiency"}>>,
       <<"RENEWABLE_ENERGY", {"renewable", "solar", "wind"}>>,
       <<"CARBON_REDUCTION", {"carbon", "emissions", "co2"}>>,
       <<"WASTE_REDUCTION", {"waste", "recycling"}>>,
       <<"WATER_CONSERVATION", {"water", "conservation"}>>,
       <<"TRANSPORTATION", {"transport", "fleet", "commute"}>>,
       <<"GREEN_BUILDING", {"building", "leed", "green"}>>,
       <<"SUPPLY_CHAIN", {"supply", "vendor", "procurement"}>> >>

\* The lists of the table with a keyword occurring in text.
MatchingLists(table, text) ==
    {i \in 1..Len(table) : \E k \in table[i][2] : OccursIgnoringCase(k, text)}

\* category is the first match of text in table: the category of the
\* earliest matching list, or otherwise when no list matches.
IsFirstMatch(category, table, text, otherwise) ==
    LET matching == MatchingLists(table, text)
    IN  IF matching = {} THEN category = otherwise
        ELSE \E i \in matching :
                /\ \A j \in matching : i <= j
                /\ category = table[i][1]

\* C20: categorize_industry returns the category of the first keyword list,
\* in declared order, with a keyword occurring in the input without regard
\* to case, and OTHER when there is none; categorize_company_size the same
\* with MEDIUM when there is none; categorize_goals returns the first-match
\* categories of the goals that match a list and nothing for the others.
C20_NormalizerFirstMatchAndTotal ==
    /\ call = "categorize_industry" =>
           IsFirstMatch(ret, IndustryKeywordLists, args.industry_str, "OTHER")
    /\ call = "categorize_company_size" =>
           IsFirstMatch(ret, SizeKeywordLists, args.size_str, "MEDIUM")
    /\ call = "categorize_goals" =>
           /\ \A i \in 1..Len(args.goals) :
                  MatchingLists(GoalKeywordLists, args.goals[i]) # {} =>
                      \E c \in ret :
                          IsFirstMatch(c, GoalKeywordLists, args.goals[i], "")
           /\ \A c \in ret :
                  \E i \in 1..Len(args.goals) :
                      /\ MatchingLists(GoalKeywordLists, args.goals[i]) # {}
                      /\ IsFirstMatch(c, GoalKeywordLists, args.goals[i], "")

\* An industry that matches two keyword lists, the earlier one winning.
C20_Witness ==
    /\ call = "categorize_industry"
    /\ args.industry_str = "Medical Factory"
    /\ Cardinality(MatchingLists(IndustryKeywordLists, args.industry_str)) = 2
    /\ ret = "MANUFACTURING"

\* A goal list with one goal that matches no keyword and one that does.
C20_WitnessGoalDropped ==
    /\ call = "categorize_goals"
    /\ args.goals = <<"be nice", "green transport">>
    /\ ret = {"TRANSPORTATION"}

\* A size that matches no keyword list.
C20_WitnessSizeDefault ==
    /\ call = "categorize_company_size"
    /\ args.size_str = "huge"
    /\ ret = "MEDIUM"

\* C21, as the claim states it: categorize_goals returns every goal
\* category with a keyword that occurs in some goal string, each once.
C21_GoalsMatchAllGroups ==
    call = "categorize_goals" =>
        ret = {GoalKeywordLists[i][1] :
                  i \in UNION {MatchingLists(GoalKeywordLists, args.goals[g]) :
                                   g \in 1..Len(args.goals)}}

\* One goal string with keywords of two groups, and the later group missing.
C21_SecondGroupMissing ==
    /\ call = "categorize_goals"
    /\ args.goals = <<"wind energy">>
    /\ MatchingLists(GoalKeywordLists, "wind energy") = {1, 2}
    /\ ret = {"ENERGY_EFFICIENCY"}

\* The part of C21 that holds: goal strings that each match one group at
\* most give exactly the categories matched, each once.
C21_SingleGroupGoalsAllReported ==
    (call = "categorize_goals"
        /\ \A g \in 1..Len(args.goals) :
               Cardinality(MatchingLists(GoalKeywordLists, args.goals[g])) <= 1)
    => ret = {GoalKeywordLists[i][1] :
                 i \in UNION {MatchingLists(GoalKeywordLists, args.goals[g]) :
                                  g \in 1..Len(args.goals)}}

\* C22, as the claim states it: a result of generate_recommendations whose
\* estimated annual savings are <= 0 (every result, for a profile with no
\* positive usage) carries no finite number of months as roi_months.
C22_NoFinitePaybackWithoutSavings ==
    (call = "generate_recommendations"
        /\ args.business_data.monthly_kwh <= 0
        /\ args.business_data.monthly_therms <= 0)
    => \A i \in 1..Len(ret) :
           ret[i].estimated_cost_savings <= 0 => ret[i].roi_months \notin Int

\* A zero-usage profile answered with savings of 0 and the rule's
\* base_roi_months as payback.
C22_BaseRoiMonthsReported ==
    /\ call = "generate_recommendations"
    /\ args.business_data.monthly_kwh = 0
    /\ args.business_data.monthly_therms = 0
    /\ \E i \in 1..Len(ret) :
        /\ ret[i].id = "energy_audit_comprehensive"
        /\ ret[i].estimated_cost_savings = 0
        /\ ret[i].roi_months = 6

\* The rule of the catalog a result was made from.
RuleOf(rec) ==
    _initialize_rules[CHOOSE r \in 1..Len(_initialize_rules) :
                          _initialize_rules[r].rule_id = rec.id]

\* The EnergyData of a profile's usage, without custom rates.
EnergyOf(business_data) ==
    [monthly_kwh |-> business_data.monthly_kwh,
     monthly_therms |-> business_data.monthly_therms,
     electricity_cost |-> None, gas_cost |-> None,
     demand_charges |-> None, peak_demand_kw |-> None]

\* C23, as the claim states it: the estimated_co2_reduction of every result
\* of generate_recommendations is the calculator's annual_co2_tons for the
\* profile's usage and location times the rule's co2_reduction_factor,
\* rounded to two places as total_co2_reduction is.
C23_Co2ReductionFromRegionalFootprint ==
    (call = "generate_recommendations"
        /\ args.business_data.monthly_kwh >= 0
        /\ args.business_data.monthly_therms >= 0)
    => \A i \in 1..Len(ret) :
           ret[i].estimated_co2_reduction =
               RoundHalfEven(
                   calculate_carbon_footprint(EnergyOf(args.business_data),
                                              args.business_data.location).annual_co2_tons
                       * RuleOf(ret[i]).co2_reduction_factor,
                   100)

\* The engine's figure is a number of pounds from the fixed factors 0.92 and
\* 11.7, the same in every region: 600 kWh and 150 therms at a factor of
\* 0.10 give 2768.4, in California as elsewhere.
C23_PoundsFromFixedFactors ==
    /\ call = "generate_recommendations"
    /\ args.business_data.monthly_kwh = 600
    /\ args.business_data.monthly_therms = 150
    /\ args.business_data.location = "Los Angeles, California"
    /\ \E i \in 1..Len(ret) :
        /\ ret[i].id = "energy_audit_comprehensive"
        /\ ret[i].estimated_co2_reduction = 276840

\* C24: calculate_solar_potential with roof_percentage = 0 or
\* facility_size = 0 returns, in every location, a system size, generation,
\* savings and cost of 0 and roi_years infinite.
C24_NoRoofNoSolar ==
    (call = "calculate_solar_potential"
        /\ (args.roof_percentage = 0 \/ args.facility_size = 0))
    => /\ ret.estimated_system_size_kw = 0
       /\ ret.annual_generation_kwh = 0
       /\ ret.annual_savings = 0
       /\ ret.estimated_cost = 0
       /\ ret.roi_years = Inf

\* The case of test_zero_roof_percentage: a facility with no usable roof.
C24_Witness ==
    /\ call = "calculate_solar_potential"
    /\ args.facility_size = 12000
    /\ args.roof_percentage = 0
    /\ args.location = "Austin, Texas"
    /\ ret.roi_years = Inf
    /\ ret.annual_savings = 0

\* C25: motor_efficiency_mfg is applicable exactly to the profiles
\* categorised as Manufacturing with monthly_kwh >= 5000, whatever their
\* size, goals, therms and location; the industry string 'Manufacturing' is
\* so categorised.
C25_MotorRuleForManufacturingFrom5000 ==
    /\ (call = "_is_rule_applicable" /\ args.rule.rule_id = "motor_efficiency_mfg")
       => (ret <=> /\ args.industry = "MANUFACTURING"
                   /\ args.business_data.monthly_kwh >= 5000)
    /\ call = "generate_recommendations"
       => /\ "motor_efficiency_mfg" \in ApplicableIds(args.business_data)
              <=> /\ categorize_industry(args.business_data.industry)
                         = "MANUFACTURING"
                  /\ args.business_data.monthly_kwh >= 5000
          /\ args.business_data.industry = "Manufacturing"
              => categorize_industry(args.business_data.industry) = "MANUFACTURING"
          /\ "motor_efficiency_mfg" \in Ids(ret)
              => "motor_efficiency_mfg" \in ApplicableIds(args.business_data)

\* The scenario of the claim at the threshold itself: Manufacturing,
\* '201-1000 employees', a cost goal, 5000 kWh, and the rule in the result.
C25_Witness ==
    /\ call = "generate_recommendations"
    /\ args.business_data.industry = "Manufacturing"
    /\ args.business_data.size = "201-1000 employees"
    /\ args.business_data.sustainability_goals = <<"Reduce energy costs by 30%">>
    /\ args.business_data.monthly_kwh = 5000
    /\ "motor_efficiency_mfg" \in Ids(ret)

\* The steps of the engine's score that a result shows: the payback step,
\* the savings step and the high-usage bonus, x100.
RoiStep(rec) ==
    IF rec.roi_months <= 12 THEN 20
    ELSE IF rec.roi_months <= 24 THEN 10
    ELSE IF rec.roi_months > 48 THEN -10
    ELSE 0
SavingsStep(rec) ==
    IF rec.estimated_cost_savings > 1000000 THEN 15
    ELSE IF rec.estimated_cost_savings > 500000 THEN 10
    ELSE IF rec.estimated_cost_savings > 200000 THEN 5
    ELSE 0
UsageStep(business_data) == IF business_data.monthly_kwh > 5000 THEN 10 ELSE 0

\* The calculator's CO2 step on the reported reduction, taken as pounds
\* (x100) and compared in tons: above 50, 25 and 10 tons.
Co2Step(rec) ==
    IF rec.estimated_co2_reduction > 50 * 2000 * 100 THEN 15
    ELSE IF rec.estimated_co2_reduction > 25 * 2000 * 100 THEN 10
    ELSE IF rec.estimated_co2_reduction > 10 * 2000 * 100 THEN 5
    ELSE 0

\* C26, as the claim states it: the priority_score of every result of
\* generate_recommendations is the rule's base priority plus the steps for
\* payback, savings, CO2 reduction and difficulty plus the high-usage bonus,
\* clamped to [0.1, 1.0].
C26_ScoreOnFourAxes ==
    call = "generate_recommendations" =>
        \A i \in 1..Len(ret) :
            ret[i].priority_score =
                ClampPriority(RuleOf(ret[i]).base_priority
                              + RoiStep(ret[i]) + SavingsStep(ret[i])
                              + Co2Step(ret[i])
                              + difficulty_adjustment(ret[i].difficulty)
                              + UsageStep(args.business_data))

\* What the engine computes: the same without the CO2 and difficulty steps.
C26_ScoreOnTwoAxesAndUsage ==
    call = "generate_recommendations" =>
        \A i \in 1..Len(ret) :
            ret[i].priority_score =
                ClampPriority(RuleOf(ret[i]).base_priority
                              + RoiStep(ret[i]) + SavingsStep(ret[i])
                              + UsageStep(args.business_data))

\* A Hard rule scored below 1.0 at its base priority plus the payback and
\* savings steps, with nothing taken off for its difficulty.
C26_HardRuleNotPenalised ==
    /\ call = "generate_recommendations"
    /\ \E i \in 1..Len(ret) :
        /\ ret[i].difficulty = "Hard"
        /\ ret[i].priority_score < 100
        /\ ret[i].priority_score > 10
        /\ ret[i].priority_score =
               RuleOf(ret[i]).base_priority + RoiStep(ret[i]) + SavingsStep(ret[i])
               + UsageStep(args.business_data)

\* a <= b for two paybacks that may be infinite.
PaybackLeq(a, b) == b.inf \/ (~a.inf /\ a.v <= b.v)

\* Easy, Medium and Hard from the most to the least favourable.
DifficultyRank(d) == IF d = "Easy" THEN 3 ELSE IF d = "Medium" THEN 2 ELSE 1

\* C27: generate_priority_score does not rise with a longer payback, does
\* not fall with higher savings, a higher CO2 reduction, a higher energy
\* usage or an easier project; and an Easy project scores strictly higher
\* than the same project Hard, and a payback of at most 12 months strictly
\* higher than one above 60, unless both scores sit at 0.1 or both at 1.0.
C27_ScoreMonotoneOnEachAxis ==
    call = "generate_priority_score" =>
        LET Score(r, s, c, d, e) == generate_priority_score(r, s, c, d, e)
            r0 == args.roi_months
            s0 == args.annual_savings
            c0 == args.co2_reduction_tons
            d0 == args.implementation_difficulty
            e0 == args.energy_usage
            Saturated(a, b) == a = b /\ a \in {10, 100}
        IN  /\ \A r \in RoiMonthsValues :
                  /\ PaybackLeq(r0, r) => Score(r, s0, c0, d0, e0) <= ret
                  /\ (LeqNum(r0, 12) /\ GtNum(r, 60)) =>
                         \/ Score(r, s0, c0, d0, e0) < ret
                         \/ Saturated(ret, Score(r, s0, c0, d0, e0))
            /\ \A s1 \in AnnualSavingsValues :
                  s0 <= s1 => ret <= Score(r0, s1, c0, d0, e0)
            /\ \A c \in Co2TonsValues :
                  c0 <= c => ret <= Score(r0, s0, c, d0, e0)
            /\ \A e \in EnergyUsageValues :
                  e0 <= e => ret <= Score(r0, s0, c0, d0, e)
            /\ \A d \in {"Easy", "Medium", "Hard"} :
                  (d0 \in {"Easy", "Medium", "Hard"}
                      /\ DifficultyRank(d0) <= DifficultyRank(d))
                  => ret <= Score(r0, s0, c0, d, e0)
            /\ d0 = "Hard" =>
                  \/ ret < Score(r0, s0, c0, "Easy", e0)
                  \/ Saturated(ret, Score(r0, s0, c0, "Easy", e0))

\* A Hard project with a payback of 12 months scored between the bounds,
\* so that the same project Easy, or with a payback above 60 months, scores
\* differently.
C27_Witness ==
    /\ call = "generate_priority_score"
    /\ args.implementation_difficulty = "Hard"
    /\ args.roi_months = Fin(12)
    /\ ret > 10
    /\ ret < 100
    /\ generate_priority_score(Fin(72), args.annual_savings,
                               args.co2_reduction_tons, "Hard",
                               args.energy_usage) < ret
    /\ generate_priority_score(Fin(12), args.annual_savings,
                               args.co2_reduction_tons, "Easy",
                               args.energy_usage) > ret

\* C28, as the claim states it: the canonical name of every industry and of
\* every company size is categorised as the member it names.
C28_CanonicalNamesNormalizeToThemselves ==
    /\ (call = "categorize_industry"
           /\ \E m \in DOMAIN IndustryType : IndustryType[m] = args.industry_str)
       => IndustryType[ret] = args.industry_str
    /\ (call = "categorize_company_size"
           /\ \E m \in DOMAIN CompanySize : CompanySize[m] = args.size_str)
       => CompanySize[ret] = args.size_str

\* 'Hospitality' holds the keyword 'it' of the first list.
C28_HospitalityIsTechnology ==
    /\ call = "categorize_industry"
    /\ args.industry_str = IndustryType["HOSPITALITY"]
    /\ ret = "TECHNOLOGY"

\* A request of industry 'Hospitality' above the threshold of
\* guest_room_automation that is answered without that rule.
C28_GuestRoomRuleNotMatched ==
    /\ call = "generate_recommendations"
    /\ args.business_data.industry = IndustryType["HOSPITALITY"]
    /\ args.business_data.monthly_kwh >= 2500
    /\ "guest_room_automation" \notin Ids(ret)
    /\ Len(ret) < 8

\* The part of C28 that holds: every canonical name but 'Hospitality'.
C28_OtherCanonicalNamesNormalizeToThemselves ==
    /\ (call = "categorize_industry"
           /\ args.industry_str # IndustryType["HOSPITALITY"]
           /\ \E m \in DOMAIN IndustryType : IndustryType[m] = args.industry_str)
       => IndustryType[ret] = args.industry_str
    /\ (call = "categorize_company_size"
           /\ \E m \in DOMAIN CompanySize : CompanySize[m] = args.size_str)
       => CompanySize[ret] = args.size_str

\* C29, as the claim states it: a goal list holding only the canonical name
\* of a goal category is categorised with that category among the result.
C29_CanonicalGoalYieldsItsCategory ==
    (call = "categorize_goals" /\ Len(args.goals) = 1
        /\ \E g \in DOMAIN GoalCategory : GoalCategory[g] = args.goals[1])
    => \E g \in ret : GoalCategory[g] = args.goals[1]

\* 'Renewable Energy' holds the keyword 'energy' of the first group.
C29_RenewableEnergyIsEnergyEfficiency ==
    /\ call = "categorize_goals"
    /\ args.goals = <<GoalCategory["RENEWABLE_ENERGY"]>>
    /\ ret = {"ENERGY_EFFICIENCY"}

\* A request with the goal 'Renewable Energy' above the threshold of
\* solar_installation that is answered without that rule.
C29_SolarRuleNotMatched ==
    /\ call = "generate_recommendations"
    /\ args.business_data.sustainability_goals
           = <<GoalCategory["RENEWABLE_ENERGY"]>>
    /\ args.business_data.monthly_kwh >= 2000
    /\ "solar_installation" \notin Ids(ret)
    /\ Len(ret) < 8

\* The part of C29 that holds: every canonical name but 'Renewable Energy'.
C29_OtherCanonicalGoalsYieldTheirCategory ==
    (call = "categorize_goals" /\ Len(args.goals) = 1
        /\ args.goals[1] # GoalCategory["RENEWABLE_ENERGY"]
        /\ \E g \in DOMAIN GoalCategory : GoalCategory[g] = args.goals[1])
    => \E g \in ret : GoalCategory[g] = args.goals[1]

\* C30: generate_recommendations returns between 1 and 8 recommendations,
\* as many as there are applicable rules up to 8, for every request:
\* energy_audit_comprehensive has no condition and is applicable to all.
C30_NeverEmptyAtMostEight ==
    /\ call = "generate_recommendations" =>
           LET ids == ApplicableIds(args.business_data)
           IN  /\ "energy_audit_comprehensive" \in ids
               /\ Len(ret) \in 1..8
               /\ Len(ret) = Min2(8, Cardinality(ids))
    /\ (call = "_is_rule_applicable"
           /\ args.rule.rule_id = "energy_audit_comprehensive") => ret = TRUE

\* A request with no usage and no goal that only the audit rule matches.
C30_Witness ==
    /\ call = "generate_recommendations"
    /\ args.business_data.monthly_kwh = 0
    /\ args.business_data.monthly_therms = 0
    /\ ApplicableIds(args.business_data) = {"energy_audit_comprehensive"}
    /\ Ids(ret) = {"energy_audit_comprehensive"}
    /\ Len(ret) = 1

\* A request that more than eight rules match, answered with eight.
C30_WitnessCutToEight ==
    /\ call = "generate_recommendations"
    /\ Cardinality(ApplicableIds(args.business_data)) > 8
    /\ Len(ret) = 8

====
